---- MODULE Spec2Model ----
(***************************************************************************)
(* CourseCompanion: quiz scoring (backend/services/quiz_service.py), the   *)
(* recommendation engine (backend/services/recommendation.py), the quiz    *)
(* and notes routers (backend/routers/quiz.py, notes.py), the results and  *)
(* discovery pages (frontend/pages), the discovery agent and the course    *)
(* chatbot (backend/services/discovery_agent.py, rag_chatbot.py).          *)
(*                                                                         *)
(* Conventions.                                                            *)
(*  - A Python dict whose iteration order is observable (topic_scores,     *)
(*    results_storage) is a sequence of entries, in insertion order; a     *)
(*    dict that is only read by key (the answer map) is a function.        *)
(*  - A Python number that can be fractional is an exact rational          *)
(*    [n |-> numerator, d |-> denominator] in lowest terms.  The code      *)
(*    computes correct / total * 100 in IEEE doubles; for all totals below *)
(*    200 the double and the exact value agree on every comparison made    *)
(*    here (with 40, 60, 70 and with one another).  None is [none |-> TRUE]*)
(*  - ret is the outcome of the last call: [kind |-> "return", value |-> v]*)
(*    or [kind |-> "raise", status |-> s, detail |-> d].                   *)
(*  - earlier is what a caller has kept of one earlier score_quiz call     *)
(*    (its arguments, its outcome and how many results were stored then),  *)
(*    [kept |-> FALSE] while it has kept nothing.                          *)
(*  - written records, for each (user_id, course_id) pair, the note last   *)
(*    saved and not deleted since, and the response of the last successful *)
(*    submit_quiz; a pair with neither is outside the domain.              *)
(*  - session_state is st.session_state of the discovery page: the        *)
(*    messages of the conversation and whether it is complete.             *)
(***************************************************************************)
EXTENDS Integers, Sequences, FiniteSets, TLC

VARIABLES quizzes, course_resources, results_storage, op, args, ret, earlier,
          notes_storage, written, session_state

vars ==
  <<quizzes, course_resources, results_storage, op, args, ret, earlier,
    notes_storage, written, session_state>>

(***************************************************************************)
(* Bounds of the model.                                                    *)
(***************************************************************************)
\* longest generated question bank explored with every partial answer map
MaxQ == 3
\* length of the single-topic bank on which 70% (7 of 10) is reachable
LongQ == 10
\* longest topic_scores dict handed to generate_recommendations
MaxTopics == 4
\* longest generated bank of the router's specification
MaxApiQ == 2

\* most topics of a topic_scores dict the results page is given
MaxPageTopics == 2

\* most questions on one topic in a topic_scores dict of the results page
MaxTotal == 5

(***************************************************************************)
(* Numbers.                                                                *)
(***************************************************************************)
Abs(i) == IF i < 0 THEN -i ELSE i

RECURSIVE Gcd(_, _)
Gcd(a, b) == IF b = 0 THEN a ELSE Gcd(b, a % b)

\* the rational n / d (d > 0) in lowest terms
Num(n, d) ==
  LET g == Gcd(Abs(n), d)
  IN  [n |-> n \div g, d |-> d \div g]

Whole(i) == [n |-> i, d |-> 1]

None == [none |-> TRUE]

\* isinstance(v, (int, float))
IsNumber(v) == "n" \in DOMAIN v

Lt(a, b) == a.n * b.d < b.n * a.d

Ge(a, b) == ~Lt(a, b)

\* dict.get(k, default)
DictGet(dict, k, default) == IF k \in DOMAIN dict THEN dict[k] ELSE default

Range(s) == {s[i] : i \in 1..Len(s)}

\* outcomes of a call
Return(v) == [kind |-> "return", value |-> v]

Raise(status, detail) == [kind |-> "raise", status |-> status, detail |-> detail]

(***************************************************************************)
(* QuizService._load_quizzes: the table the program ships.                 *)
(***************************************************************************)
RealQuizzes ==
  "xm-cloud-101" :> <<
      [id |-> "xm-q1", question |-> "What is the primary purpose of XM Cloud?",
       options |-> <<"Database management", "Headless content management and delivery", "Email marketing", "Customer relationship management">>,
       correct |-> 1, topic |-> "fundamentals", difficulty |-> "easy"],
      [id |-> "xm-q2", question |-> "Which framework is commonly used with XM Cloud for frontend development?",
       options |-> <<"Angular only", "Vue.js only", "Next.js with JSS", "PHP">>,
       correct |-> 2, topic |-> "development", difficulty |-> "medium"],
      [id |-> "xm-q3", question |-> "What does 'headless' mean in the context of XM Cloud?",
       options |-> <<"No user interface at all", "Content is separated from presentation", "Only works without a database", "Requires no authentication">>,
       correct |-> 1, topic |-> "architecture", difficulty |-> "easy"],
      [id |-> "xm-q4", question |-> "How are components typically created in XM Cloud?",
       options |-> <<"Only through the UI", "Using SQL scripts", "As React/Next.js components with Sitecore integration", "Through XML configuration only">>,
       correct |-> 2, topic |-> "development", difficulty |-> "medium"],
      [id |-> "xm-q5", question |-> "What is the deployment model for XM Cloud?",
       options |-> <<"On-premise only", "SaaS (Software as a Service)", "Self-hosted required", "Desktop application">>,
       correct |-> 1, topic |-> "deployment", difficulty |-> "easy"] >>
  @@
  "search-fundamentals" :> <<
      [id |-> "search-q1", question |-> "What is the primary function of an index in Sitecore Search?",
       options |-> <<"Store user passwords", "Enable fast content retrieval", "Manage user sessions", "Handle authentication">>,
       correct |-> 1, topic |-> "indexing", difficulty |-> "easy"],
      [id |-> "search-q2", question |-> "What are facets in search?",
       options |-> <<"Error messages", "Categories for filtering search results", "Database tables", "User permissions">>,
       correct |-> 1, topic |-> "facets", difficulty |-> "easy"],
      [id |-> "search-q3", question |-> "What is boosting in search queries?",
       options |-> <<"Making searches slower", "Increasing relevance of certain results", "Removing results", "Encrypting queries">>,
       correct |-> 1, topic |-> "optimization", difficulty |-> "medium"],
      [id |-> "search-q4", question |-> "When should you rebuild a search index?",
       options |-> <<"Never", "After significant content changes or schema updates", "Every minute", "Only on weekends">>,
       correct |-> 1, topic |-> "indexing", difficulty |-> "medium"] >>
  @@
  "content-hub-101" :> <<
      [id |-> "ch-q1", question |-> "What is the primary use case for Content Hub DAM?",
       options |-> <<"Code deployment", "Digital asset management", "User authentication", "Email sending">>,
       correct |-> 1, topic |-> "dam", difficulty |-> "easy"],
      [id |-> "ch-q2", question |-> "What does CMP stand for in Content Hub?",
       options |-> <<"Code Management Platform", "Content Marketing Platform", "Customer Management Portal", "Central Media Player">>,
       correct |-> 1, topic |-> "cmp", difficulty |-> "easy"],
      [id |-> "ch-q3", question |-> "How do workflows help in Content Hub?",
       options |-> <<"They slow down processes", "They automate content review and approval processes", "They delete content automatically", "They prevent any changes">>,
       correct |-> 1, topic |-> "workflows", difficulty |-> "medium"],
      [id |-> "ch-q4", question |-> "What types of assets can Content Hub manage?",
       options |-> <<"Only images", "Only videos", "Multiple asset types including images, videos, documents", "Only PDFs">>,
       correct |-> 2, topic |-> "dam", difficulty |-> "easy"],
      [id |-> "ch-q5", question |-> "What is the benefit of Content Hub's integration capabilities?",
       options |-> <<"It cannot integrate with other systems", "It enables connection with other marketing and content tools", "It only works standalone", "Integration removes all features">>,
       correct |-> 1, topic |-> "integration", difficulty |-> "medium"] >>

(***************************************************************************)
(* Question banks explored besides the shipped table.  The claims quantify *)
(* over every bank, so the table is drawn from a family: the shipped       *)
(* table, every one-course table whose bank has at most MaxQ questions,    *)
(* and one bank of LongQ questions on a single topic.                      *)
(***************************************************************************)
GenCourse == "gen-course"

GenTopics == {"architecture", "development"}

GenCorrect == {1, 2}

GenOptions == <<"option 0", "option 1", "option 2">>

QId(i) == "q" \o ToString(i)

GenQuestion(i, topic, correct) ==
  [id |-> QId(i), question |-> "Question " \o ToString(i) \o "?",
   options |-> GenOptions, correct |-> correct, topic |-> topic,
   difficulty |-> "easy"]

GenBanks ==
  UNION {{[i \in 1..k |-> GenQuestion(i, f[i][1], f[i][2])] :
            f \in [1..k -> GenTopics \X GenCorrect]} : k \in 1..MaxQ}

LongBank == [i \in 1..LongQ |-> GenQuestion(i, "fundamentals", 1)]

LongTable == GenCourse :> LongBank

GenTables == {GenCourse :> b : b \in GenBanks}

QuizTables == {RealQuizzes, LongTable} \cup GenTables

\* banks of five questions, two tagged "architecture" (correct option 1) and
\* three tagged "development" (correct options 2, 2, 0), in three orders
ScenarioBanks ==
  {<<GenQuestion(1, "architecture", 1), GenQuestion(2, "architecture", 1),
     GenQuestion(3, "development", 2), GenQuestion(4, "development", 2),
     GenQuestion(5, "development", 0)>>,
   <<GenQuestion(1, "development", 2), GenQuestion(2, "architecture", 1),
     GenQuestion(3, "development", 2), GenQuestion(4, "architecture", 1),
     GenQuestion(5, "development", 0)>>,
   <<GenQuestion(1, "development", 0), GenQuestion(2, "development", 2),
     GenQuestion(3, "development", 2), GenQuestion(4, "architecture", 1),
     GenQuestion(5, "architecture", 1)>>}

ScenarioTables == {GenCourse :> b : b \in ScenarioBanks}

(***************************************************************************)
(* QuizService                                                             *)
(***************************************************************************)
\* faulty variant: an unknown course falls back to some course's bank
get_questionsFallback(table, course_id) ==
  IF course_id \in DOMAIN table THEN table[course_id]
  ELSE table[CHOOSE c \in DOMAIN table : TRUE]

\* self.quizzes.get(course_id, [])
get_questions(table, course_id) == DictGet(table, course_id, <<>>)

\* faulty variant: an omitted question defaults to option 1
UserAnswerDefaultOne(answers, q_id) == DictGet(answers, q_id, 1)

\* answers.get(q_id, -1)
UserAnswer(answers, q_id) == DictGet(answers, q_id, -1)

\* faulty variant: any option at or after the correct one is accepted
IsCorrectAtLeast(user_answer, question) == user_answer >= question.correct

IsCorrect(user_answer, question) == user_answer = question.correct

HasTopic(topic_scores, topic) ==
  \E i \in 1..Len(topic_scores) : topic_scores[i].topic = topic

\* faulty variant: a topic seen for the first time goes to the front
TrackTopicPrepending(topic_scores, topic, is_correct) ==
  LET known ==
        IF HasTopic(topic_scores, topic) THEN topic_scores
        ELSE <<[topic |-> topic, correct |-> 0, total |-> 0]>> \o topic_scores
  IN  [i \in 1..Len(known) |->
         IF known[i].topic = topic
           THEN [known[i] EXCEPT !.total = @ + 1,
                                 !.correct = IF is_correct THEN @ + 1 ELSE @]
           ELSE known[i]]

\* faulty variant: the topic's correct count grows on every question
TrackTopicAlwaysCorrect(topic_scores, topic, is_correct) ==
  LET started == IF ~HasTopic(topic_scores, topic)
                   THEN Append(topic_scores,
                               [topic |-> topic, correct |-> 0, total |-> 0])
                   ELSE topic_scores
  IN  [i \in 1..Len(started) |->
         IF started[i].topic = topic
           THEN [started[i] EXCEPT !.total = @ + 1, !.correct = @ + 1]
           ELSE started[i]]

\* the "Track topic scores" block of the scoring loop
TrackTopic(topic_scores, topic, is_correct) ==
  LET started == IF ~HasTopic(topic_scores, topic)
                   THEN Append(topic_scores,
                               [topic |-> topic, correct |-> 0, total |-> 0])
                   ELSE topic_scores
  IN  [i \in 1..Len(started) |->
         IF started[i].topic = topic
           THEN [started[i] EXCEPT
                   !.total = @ + 1,
                   !.correct = IF is_correct THEN @ + 1 ELSE @]
           ELSE started[i]]

QuestionResult(question, user_answer, is_correct) ==
  [question_id |-> question.id, question |-> question.question,
   user_answer |-> user_answer, correct_answer |-> question.correct,
   is_correct |-> is_correct, topic |-> question.topic]

\* (score / total * 100) if total > 0 else 0
Percentage(score, total) ==
  IF total > 0 THEN Num(score * 100, total) ELSE Whole(0)

\* faulty variant: exactly 70 does not pass
PassedStrict(percentage) == Lt(Whole(70), percentage)

\* percentage >= 70
Passed(percentage) == Ge(percentage, Whole(70))

\* faulty variant: the ratio is not scaled to a percentage
TopicPercentageRatio(scores) ==
  [topic |-> scores.topic, correct |-> scores.correct, total |-> scores.total,
   percentage |-> Num(scores.correct, scores.total)]

\* faulty variant: the topic percentage is cut to a whole number
TopicPercentageWhole(scores) ==
  [topic |-> scores.topic, correct |-> scores.correct, total |-> scores.total,
   percentage |-> Whole((scores.correct * 100) \div scores.total)]

\* the "Calculate topic percentages" loop body
TopicPercentage(scores) ==
  [topic |-> scores.topic, correct |-> scores.correct, total |-> scores.total,
   percentage |-> Percentage(scores.correct, scores.total)]

\* the scoring loop, question i onwards
RECURSIVE ScoreLoop(_, _, _, _)
ScoreLoop(questions, answers, i, acc) ==
  IF i > Len(questions) THEN acc
  ELSE LET question == questions[i]
           user_answer == UserAnswer(answers, question.id)
           is_correct == IsCorrect(user_answer, question)
       IN  ScoreLoop(questions, answers, i + 1,
             [score |-> IF is_correct THEN acc.score + 1 ELSE acc.score,
              topic_scores |->
                TrackTopic(acc.topic_scores, question.topic, is_correct),
              question_results |->
                Append(acc.question_results,
                       QuestionResult(question, user_answer, is_correct))])

\* faulty variant: the not-found result carries no error entry
QuizNotFoundUnmarked ==
  [score |-> 0, total |-> 0, percentage |-> Whole(0), topic_scores |-> <<>>]

\* the result for a course without questions
QuizNotFound ==
  [error |-> "Quiz not found", score |-> 0, total |-> 0,
   percentage |-> Whole(0), topic_scores |-> <<>>]

\* the orders in which list(set(...)) may list the members of a set
ListsOfSet(S) ==
  {f \in [1..Cardinality(S) -> S] :
     \A i, j \in 1..Cardinality(S) : i # j => f[i] # f[j]}

\* list(set(q["topic"] for q in questions)): every order it may have
get_topics(table, course_id) ==
  LET questions == get_questions(table, course_id)
  IN  ListsOfSet({questions[i].topic : i \in 1..Len(questions)})

\* every result validate_answers may return (missing_questions is a
\* list(set))
validate_answers(table, course_id, answers) ==
  LET questions == get_questions(table, course_id)
      question_ids == {questions[i].id : i \in 1..Len(questions)}
      answered_ids == DOMAIN answers
      missing == question_ids \ answered_ids
  IN  {[valid |-> Cardinality(missing) = 0,
        total_questions |-> Len(questions),
        answered |-> Cardinality(answered_ids),
        missing_questions |-> missing_questions] :
         missing_questions \in ListsOfSet(missing)}

\* faulty variant: the score of a stored submission for the course is reused
score_quizCached(table, course_id, answers) ==
  LET questions == get_questions(table, course_id)
      stored == {i \in 1..Len(results_storage) :
                   results_storage[i].value.course_id = course_id}
  IN  IF questions = <<>> THEN QuizNotFound
      ELSE LET acc == ScoreLoop(questions, answers, 1,
                        [score |-> 0, topic_scores |-> <<>>,
                         question_results |-> <<>>])
               total == Len(questions)
               score == IF stored = {} THEN acc.score
                        ELSE results_storage[CHOOSE i \in stored : TRUE]
                               .value.score
               percentage == Percentage(score, total)
           IN  [score |-> score,
                total |-> total,
                percentage |-> percentage,
                passed |-> Passed(percentage),
                topic_scores |->
                  [i \in 1..Len(acc.topic_scores) |->
                     TopicPercentage(acc.topic_scores[i])],
                question_results |-> acc.question_results]

score_quiz(table, course_id, answers) ==
  LET questions == get_questions(table, course_id)
  IN  IF questions = <<>> THEN QuizNotFound
      ELSE LET acc == ScoreLoop(questions, answers, 1,
                        [score |-> 0, topic_scores |-> <<>>,
                         question_results |-> <<>>])
               total == Len(questions)
               percentage == Percentage(acc.score, total)
           IN  [score |-> acc.score,
                total |-> total,
                percentage |-> percentage,
                passed |-> Passed(percentage),
                topic_scores |->
                  [i \in 1..Len(acc.topic_scores) |->
                     TopicPercentage(acc.topic_scores[i])],
                question_results |-> acc.question_results]

(***************************************************************************)
(* Python str operations used by the recommendation engine.                *)
(***************************************************************************)
LowerCase == "abcdefghijklmnopqrstuvwxyz"

UpperCase == "ABCDEFGHIJKLMNOPQRSTUVWXYZ"

CharAt(s, i) == SubSeq(s, i, i)

\* the position of character c in alphabet, 0 when it is not there
IndexIn(c, alphabet) ==
  IF \E i \in 1..Len(alphabet) : CharAt(alphabet, i) = c
    THEN CHOOSE i \in 1..Len(alphabet) : CharAt(alphabet, i) = c
    ELSE 0

IsCased(c) == IndexIn(c, LowerCase) > 0 \/ IndexIn(c, UpperCase) > 0

CharUpper(c) ==
  IF IndexIn(c, LowerCase) > 0 THEN CharAt(UpperCase, IndexIn(c, LowerCase))
  ELSE c

CharLower(c) ==
  IF IndexIn(c, UpperCase) > 0 THEN CharAt(LowerCase, IndexIn(c, UpperCase))
  ELSE c

\* str.replace(old, new) for a one-character old
RECURSIVE StrReplace(_, _, _)
StrReplace(s, old, new) ==
  IF Len(s) = 0 THEN ""
  ELSE (IF CharAt(s, 1) = old THEN new ELSE CharAt(s, 1))
         \o StrReplace(SubSeq(s, 2, Len(s)), old, new)

\* str.lower()
RECURSIVE StrLower(_)
StrLower(s) ==
  IF Len(s) = 0 THEN ""
  ELSE IF Len(s) = 1 THEN CharLower(s)
  ELSE LET half == Len(s) \div 2
       IN  StrLower(SubSeq(s, 1, half))
             \o StrLower(SubSeq(s, half + 1, Len(s)))

\* str.title(): a cased character is upper-cased after an uncased one (or at
\* the start) and lower-cased after a cased one
RECURSIVE TitleFrom(_, _)
TitleFrom(s, prev_cased) ==
  IF Len(s) = 0 THEN ""
  ELSE LET c == CharAt(s, 1)
       IN  (IF ~IsCased(c) THEN c
            ELSE IF prev_cased THEN CharLower(c) ELSE CharUpper(c))
             \o TitleFrom(SubSeq(s, 2, Len(s)), IsCased(c))

StrTitle(s) == TitleFrom(s, FALSE)

(***************************************************************************)
(* RecommendationEngine._load_course_resources                             *)
(***************************************************************************)
RealCourseResources ==
  "xm-cloud-101" :> [topics |-> (
      "fundamentals" :> [module |-> "Module 1: Introduction to XM Cloud", artifact |-> "mindmap",
        tip |-> "Review the core concepts and architecture overview",
        resources |-> <<"Watch the introduction video", "Review the architecture diagram", "Complete the hands-on exercise">>]
      @@
      "development" :> [module |-> "Module 4: Component Development", artifact |-> "cheatsheet",
        tip |-> "Practice creating components with the JSS SDK",
        resources |-> <<"Follow the component tutorial", "Review the JSS documentation", "Build a sample component">>]
      @@
      "architecture" :> [module |-> "Module 2: Architecture Overview", artifact |-> "mindmap",
        tip |-> "Study the headless architecture diagram",
        resources |-> <<"Review the system diagram", "Understand the data flow", "Learn about Experience Edge">>]
      @@
      "deployment" :> [module |-> "Module 5: Deployment & Publishing", artifact |-> "summary",
        tip |-> "Follow the deployment checklist step by step",
        resources |-> <<"Set up your GitHub repository", "Configure environment variables", "Practice with the Deploy app">>])]
  @@
  "search-fundamentals" :> [topics |-> (
      "indexing" :> [module |-> "Module 1 & 2: Search Architecture & Indexing", artifact |-> "mindmap",
        tip |-> "Understand when and how to rebuild indexes",
        resources |-> <<"Learn about index structures", "Practice index configuration", "Understand incremental vs full rebuild">>]
      @@
      "facets" :> [module |-> "Module 4: Faceted Search", artifact |-> "slides",
        tip |-> "Practice creating facet configurations",
        resources |-> <<"Review facet types", "Configure custom facets", "Implement facet UI">>]
      @@
      "optimization" :> [module |-> "Module 3: Query Optimization", artifact |-> "summary",
        tip |-> "Learn about boosting and relevance tuning",
        resources |-> <<"Study relevance scoring", "Implement boosting rules", "Test query performance">>])]
  @@
  "content-hub-101" :> [topics |-> (
      "dam" :> [module |-> "Module 2: Asset Management", artifact |-> "mindmap",
        tip |-> "Explore different asset types and metadata",
        resources |-> <<"Upload and organize assets", "Configure metadata schemas", "Learn about renditions">>]
      @@
      "cmp" :> [module |-> "Module 3: Content Operations", artifact |-> "slides",
        tip |-> "Understand the content lifecycle",
        resources |-> <<"Create content items", "Set up taxonomies", "Learn about content types">>]
      @@
      "workflows" :> [module |-> "Module 5: Workflows & Approvals", artifact |-> "workflow",
        tip |-> "Practice creating approval workflows",
        resources |-> <<"Design workflow stages", "Configure notifications", "Test approval processes">>]
      @@
      "integration" :> [module |-> "Module 4: Integration Patterns", artifact |-> "slides",
        tip |-> "Review API documentation and examples",
        resources |-> <<"Study the REST API", "Implement webhooks", "Build a sample integration">>])]

(***************************************************************************)
(* RecommendationEngine                                                    *)
(***************************************************************************)

\* faulty variant: underscores are kept in the title
default_resourceUnderscored(topic) ==
  LET topic_title == StrTitle(topic)
  IN  [module |-> "Review " \o topic_title \o " section",
       artifact |-> "summary",
       tip |-> "Focus on " \o StrLower(topic_title) \o " concepts",
       resources |-> <<"Review " \o StrLower(topic_title) \o " materials",
                       "Practice with examples",
                       "Take notes on key concepts">>]

default_resource(topic) ==
  LET topic_title == StrTitle(StrReplace(topic, "_", " "))
  IN  [module |-> "Review " \o topic_title \o " section",
       artifact |-> "summary",
       tip |-> "Focus on " \o StrLower(topic_title) \o " concepts",
       resources |-> <<"Review " \o StrLower(topic_title) \o " materials",
                       "Practice with examples",
                       "Take notes on key concepts">>]

\* scores.get("percentage", 0), recomputed from correct and total when the
\* stored value is not a number
EntryPercentage(scores) ==
  LET percentage == DictGet(scores, "percentage", Whole(0))
  IN  IF IsNumber(percentage) THEN percentage
      ELSE LET total == DictGet(scores, "total", 1)
               correct == DictGet(scores, "correct", 0)
           IN  IF total > 0 THEN Num(correct * 100, total) ELSE Whole(0)

\* if percentage < threshold
BelowThreshold(percentage, threshold) == Lt(percentage, threshold)

\* faulty variant: the boundaries 40 and 60 fall in the tier below
PriorityInclusive(percentage) ==
  IF ~Lt(Whole(40), percentage) THEN "high"
  ELSE IF ~Lt(Whole(60), percentage) THEN "medium"
  ELSE "low"

\* faulty variant: the two-tier rule of the results page
PriorityTwoTier(percentage) ==
  IF Lt(percentage, Whole(50)) THEN "high" ELSE "medium"

\* "Determine priority based on score"
Priority(percentage) ==
  IF Lt(percentage, Whole(40)) THEN "high"
  ELSE IF Lt(percentage, Whole(60)) THEN "medium"
  ELSE "low"

PriorityOrder == [high |-> 0, medium |-> 1, low |-> 2]

\* the sort key: (priority_order.get(x["priority"], 3), x["score"])
SortKey(x) == <<DictGet(PriorityOrder, x.priority, 3), x.score>>

\* faulty variant: the score takes no part in the comparison
KeyLessRankOnly(a, b) == SortKey(a)[1] < SortKey(b)[1]

\* faulty variant: an element also goes before one with an equal key
KeyLessOrEqual(a, b) ==
  \/ SortKey(a)[1] < SortKey(b)[1]
  \/ SortKey(a)[1] = SortKey(b)[1] /\ ~Lt(SortKey(b)[2], SortKey(a)[2])

\* tuple comparison key(a) < key(b)
KeyLess(a, b) ==
  \/ SortKey(a)[1] < SortKey(b)[1]
  \/ SortKey(a)[1] = SortKey(b)[1] /\ Lt(SortKey(a)[2], SortKey(b)[2])

\* x goes before the first element whose key is greater than its own
RECURSIVE InsertStable(_, _)
InsertStable(sorted, x) ==
  IF sorted = <<>> THEN <<x>>
  ELSE IF KeyLess(x, Head(sorted)) THEN <<x>> \o sorted
  ELSE <<Head(sorted)>> \o InsertStable(Tail(sorted), x)

\* list.sort(key=...): stable
RECURSIVE SortRecommendations(_)
SortRecommendations(recommendations) ==
  IF recommendations = <<>> THEN <<>>
  ELSE InsertStable(
         SortRecommendations(SubSeq(recommendations, 1,
                                    Len(recommendations) - 1)),
         recommendations[Len(recommendations)])

\* topic names of the model
TopicKeys ==
  <<"fundamentals", "api_design", "development", "deployment",
    "architecture", "dam">>

\* default_resource on the model's topic names, evaluated once
DefaultResources == [topic \in Range(TopicKeys) |-> default_resource(topic)]

\* topic_resources.get(topic, self._default_resource(topic))
ResourceFor(topic_resources, topic) ==
  IF topic \in DOMAIN topic_resources THEN topic_resources[topic]
  ELSE IF topic \in DOMAIN DefaultResources THEN DefaultResources[topic]
  ELSE default_resource(topic)

Recommend(topic_resources, topic, percentage) ==
  LET resource == ResourceFor(topic_resources, topic)
  IN  [topic |-> topic,
       score |-> percentage,
       priority |-> Priority(percentage),
       module |-> DictGet(resource, "module", "Review " \o topic \o " section"),
       artifact |-> DictGet(resource, "artifact", "summary"),
       tip |-> DictGet(resource, "tip", "Focus on " \o topic \o " concepts"),
       resources |-> DictGet(resource, "resources", <<>>)]

\* the loop over topic_scores.items(), entry i onwards
RECURSIVE RecommendLoop(_, _, _, _, _)
RecommendLoop(topic_resources, topic_scores, threshold, i, recommendations) ==
  IF i > Len(topic_scores) THEN recommendations
  ELSE LET scores == topic_scores[i]
           percentage == EntryPercentage(scores)
       IN  RecommendLoop(topic_resources, topic_scores, threshold, i + 1,
             IF BelowThreshold(percentage, threshold)
               THEN Append(recommendations,
                           Recommend(topic_resources, scores.topic, percentage))
               ELSE recommendations)

generate_recommendations(resources, course_id, topic_scores, threshold) ==
  LET found == DictGet(resources, course_id, <<>>)
      topic_resources == DictGet(found, "topics", <<>>)
  IN  SortRecommendations(
        RecommendLoop(topic_resources, topic_scores, threshold, 1, <<>>))

(***************************************************************************)
(* routers/quiz.py: submit_quiz scores inline, asks the engine for the     *)
(* recommendations and stores the response under "user_id:course_id".      *)
(***************************************************************************)
\* threshold: float = 70.0, the default submit_quiz relies on
DefaultThreshold == Whole(70)

\* the inline scoring loop of submit_quiz, question i onwards
RECURSIVE SubmitLoop(_, _, _, _)
SubmitLoop(questions, answers, i, acc) ==
  IF i > Len(questions) THEN acc
  ELSE LET question == questions[i]
           user_answer == DictGet(answers, question.id, -1)
           is_correct == user_answer = question.correct
           topic == question.topic
           started == IF ~HasTopic(acc.topic_scores, topic)
                        THEN Append(acc.topic_scores,
                               [topic |-> topic, correct |-> 0, total |-> 0])
                        ELSE acc.topic_scores
       IN  SubmitLoop(questions, answers, i + 1,
             [score |-> IF is_correct THEN acc.score + 1 ELSE acc.score,
              topic_scores |->
                [j \in 1..Len(started) |->
                   IF started[j].topic = topic
                     THEN [started[j] EXCEPT
                             !.total = @ + 1,
                             !.correct = IF is_correct THEN @ + 1 ELSE @]
                     ELSE started[j]]])

\* percentage = (score / total * 100) if total > 0 else 0
SubmitPercentage(score, total) ==
  IF total > 0 THEN Num(score * 100, total) ELSE Whole(0)

\* faulty variant: exactly 70 does not pass
SubmitPassedStrict(percentage) == Lt(Whole(70), percentage)

\* passed = percentage >= 70
SubmitPassed(percentage) == Ge(percentage, Whole(70))

\* TopicScore(topic=..., correct=..., total=..., percentage=...)
TopicScoreModel(scores) ==
  [topic |-> scores.topic, correct |-> scores.correct, total |-> scores.total,
   percentage |-> IF scores.total > 0
                    THEN Num(scores.correct * 100, scores.total)
                    ELSE Whole(0)]

\* Recommendation(topic=..., score=..., priority=..., module=..., ...)
RecommendationModel(rec) ==
  [topic |-> rec.topic, score |-> rec.score, priority |-> rec.priority,
   module |-> rec.module, artifact |-> rec.artifact, tip |-> rec.tip]

\* f"{user_id}:{course_id}"
StorageKey(user_id, course_id) == user_id \o ":" \o course_id

HasKey(storage, key) == \E i \in 1..Len(storage) : storage[i].key = key

\* storage[key] = value: a new key is appended, a known key keeps its place
DictSet(storage, key, value) ==
  IF HasKey(storage, key)
    THEN [i \in 1..Len(storage) |->
            IF storage[i].key = key THEN [key |-> key, value |-> value]
            ELSE storage[i]]
    ELSE Append(storage, [key |-> key, value |-> value])

\* the outcome of submit_quiz and the storage it leaves
submit_quiz(table, resources, storage, submission, now) ==
  LET questions == get_questions(table, submission.course_id)
  IN  IF questions = <<>>
        THEN [ret |-> Raise(404, "Quiz not found"), storage |-> storage]
        ELSE
          LET acc == SubmitLoop(questions, submission.answers, 1,
                                [score |-> 0, topic_scores |-> <<>>])
              total == Len(questions)
              percentage == SubmitPercentage(acc.score, total)
              recommendations ==
                generate_recommendations(resources, submission.course_id,
                                         acc.topic_scores, DefaultThreshold)
              result ==
                [user_id |-> submission.user_id,
                 course_id |-> submission.course_id,
                 score |-> acc.score,
                 total |-> total,
                 percentage |-> percentage,
                 passed |-> SubmitPassed(percentage),
                 topic_scores |->
                   [i \in 1..Len(acc.topic_scores) |->
                      TopicScoreModel(acc.topic_scores[i])],
                 recommendations |->
                   [i \in 1..Len(recommendations) |->
                      RecommendationModel(recommendations[i])],
                 submitted_at |-> now]
          IN  [ret |-> Return(result),
               storage |-> DictSet(storage,
                             StorageKey(submission.user_id,
                                        submission.course_id),
                             result)]

(***************************************************************************)
(* Inputs of the calls.                                                    *)
(***************************************************************************)
UnknownCourse == "no-such-course"

CourseInputs == DOMAIN RealQuizzes \cup {GenCourse, UnknownCourse}

\* a key that is the id of no question
ExtraKey == "zz-extra"

AnswerValues == {-1, 1, 2}

QuestionIds(questions) == {questions[i].id : i \in 1..Len(questions)}

\* the indexes of a generated question's options
OptionIndexes == {i - 1 : i \in 1..Len(GenOptions)}

PartialMaps(keys, values) == UNION {[K -> values] : K \in SUBSET keys}

\* every partial answer map over the course's question ids and ExtraKey;
\* on the long bank, every total map that answers each question 1 or 2; on a
\* five-question bank, every partial map from question ids to option indexes
AnswerInputs(table, course_id) ==
  LET questions == get_questions(table, course_id)
  IN  IF Len(questions) = LongQ /\ table = LongTable
        THEN [QuestionIds(questions) -> {1, 2}]
      ELSE IF table \in ScenarioTables
        THEN PartialMaps(QuestionIds(questions), OptionIndexes)
        ELSE PartialMaps(QuestionIds(questions) \cup {ExtraKey}, AnswerValues)

NothingKept == [kept |-> FALSE]

NothingWritten == [notes |-> <<>>, results |-> <<>>]

\* st.session_state of the discovery page before the page is opened
NoSession == [discovery_messages |-> <<>>, discovery_complete |-> FALSE]

\* The caller takes the outcome of the last call; the next call starts from
\* there.  Calls do not overlap: no handler awaits between its first and its
\* last statement.
Idle == op = "idle"

TakeResult ==
  /\ ~Idle
  /\ op' = "idle"
  /\ args' = <<>>
  /\ ret' = [kind |-> "none"]
  /\ UNCHANGED <<quizzes, course_resources, results_storage, earlier,
                 notes_storage, written, session_state>>

\* faulty variant: the questions are taken off the bank as they are scored
ScoreQuizConsuming ==
  /\ Idle
  /\ \E course_id \in CourseInputs :
      \E answers \in AnswerInputs(quizzes, course_id) :
      /\ op' = "score_quiz"
      /\ args' = [course_id |-> course_id, answers |-> answers]
      /\ ret' = Return(score_quiz(quizzes, course_id, answers))
      /\ quizzes' = [c \in DOMAIN quizzes |->
                       IF c = course_id THEN <<>> ELSE quizzes[c]]
      /\ UNCHANGED <<course_resources, results_storage, earlier,
                     notes_storage, written, session_state>>

ScoreQuiz ==
  /\ Idle
  /\ \E course_id \in CourseInputs :
      \E answers \in AnswerInputs(quizzes, course_id) :
      /\ op' = "score_quiz"
      /\ args' = [course_id |-> course_id, answers |-> answers]
      /\ ret' = Return(score_quiz(quizzes, course_id, answers))
      /\ UNCHANGED <<quizzes, course_resources, results_storage, earlier,
                     notes_storage, written, session_state>>

GetQuestions ==
  /\ Idle
  /\ \E course_id \in CourseInputs :
    /\ op' = "get_questions"
    /\ args' = [course_id |-> course_id]
    /\ ret' = Return(get_questions(quizzes, course_id))
    /\ UNCHANGED <<quizzes, course_resources, results_storage, earlier,
                   notes_storage, written, session_state>>

\* topic_scores handed to generate_recommendations: entry i is keyed by
\* TopicKeys[i] (dict keys are distinct), with a stored percentage, with no
\* "percentage" key, or with a stored None
StoredPercentages == {30, 40, 55, 60, 65, 70, 85}

ScoreInputs ==
  {[percentage |-> Whole(p)] : p \in StoredPercentages}
    \cup {[correct |-> 1, total |-> 1],
          [correct |-> 1, total |-> 3, percentage |-> None]}

Min(a, b) == IF a < b THEN a ELSE b

\* the dict of k entries whose i-th key is TopicKeys[i] and value f[i]
TopicScoresOf(k, f) == [i \in 1..k |-> [topic |-> TopicKeys[i]] @@ f[i]]

ThresholdInputs == {Whole(50), Whole(70), Whole(100)}

GenerateRecommendations ==
  /\ Idle
  /\ \E course_id \in {"xm-cloud-101", UnknownCourse} :
      \E k \in 0..Min(MaxTopics, Len(TopicKeys)) :
      \E f \in [1..k -> ScoreInputs] :
      \E threshold \in ThresholdInputs :
        LET topic_scores == TopicScoresOf(k, f)
        IN  /\ op' = "generate_recommendations"
            /\ args' = [course_id |-> course_id,
                        topic_scores |-> topic_scores,
                        threshold |-> threshold]
            /\ ret' = Return(generate_recommendations(course_resources,
                               course_id, topic_scores, threshold))
            /\ UNCHANGED <<quizzes, course_resources, results_storage,
                           earlier, notes_storage, written, session_state>>

\* banks of the router's specification: the long bank and the generated banks
\* of at most MaxApiQ questions
ApiTables ==
  {LongTable} \cup {tb \in GenTables : Len(tb[GenCourse]) <= MaxApiQ}

UserInputs == {"u1"}

\* user ids of the requests that are told apart by their ids: one id is the
\* other followed by ":" and more
IdUsers == {"a", "a:b"}

\* the bank of the specification in which several users submit
ResultsTable == GenCourse :> <<GenQuestion(1, "fundamentals", 1)>>

\* submission.user_id
SubmitUsers(table) == IF table = ResultsTable THEN IdUsers ELSE UserInputs

\* what datetime.utcnow().isoformat() may read
ClockInputs == {"2024-05-01T12:00:00"}

SubmitQuiz ==
  /\ Idle
  /\ \E user_id \in SubmitUsers(quizzes) :
      \E course_id \in {GenCourse, UnknownCourse} :
      \E answers \in AnswerInputs(quizzes, course_id), now \in ClockInputs :
        LET submission == [user_id |-> user_id, course_id |-> course_id,
                           answers |-> answers]
            out == submit_quiz(quizzes, course_resources, results_storage,
                               submission, now)
        IN  /\ op' = "submit_quiz"
            /\ args' = submission
            /\ ret' = out.ret
            /\ results_storage' = out.storage
            /\ written' =
                 IF out.ret.kind = "return"
                   THEN [written EXCEPT
                           !.results = (<<user_id, course_id>> :> out.ret.value)
                                         @@ @]
                   ELSE written
            /\ UNCHANGED <<quizzes, course_resources, earlier, notes_storage,
                           session_state>>

InitApi ==
  /\ quizzes \in ApiTables
  /\ course_resources = RealCourseResources
  /\ results_storage = <<>>
  /\ earlier = NothingKept
  /\ notes_storage = <<>>
  /\ written = NothingWritten
  /\ session_state = NoSession
  /\ op = "idle"
  /\ args = <<>>
  /\ ret = [kind |-> "none"]

NextApi == SubmitQuiz \/ ScoreQuiz \/ TakeResult

SpecApi == InitApi /\ [][NextApi]_vars

\* a RecommendationEngine alone: no QuizService is constructed
InitRec ==
  /\ quizzes = <<>>
  /\ course_resources = RealCourseResources
  /\ results_storage = <<>>
  /\ earlier = NothingKept
  /\ notes_storage = <<>>
  /\ written = NothingWritten
  /\ session_state = NoSession
  /\ op = "idle"
  /\ args = <<>>
  /\ ret = [kind |-> "none"]

NextRec == GenerateRecommendations \/ TakeResult

SpecRec == InitRec /\ [][NextRec]_vars

\* a QuizService alone: no RecommendationEngine is constructed
InitQuiz ==
  /\ quizzes \in QuizTables
  /\ course_resources = <<>>
  /\ results_storage = <<>>
  /\ earlier = NothingKept
  /\ notes_storage = <<>>
  /\ written = NothingWritten
  /\ session_state = NoSession
  /\ op = "idle"
  /\ args = <<>>
  /\ ret = [kind |-> "none"]

NextQuiz == ScoreQuiz \/ GetQuestions \/ TakeResult

SpecQuiz == InitQuiz /\ [][NextQuiz]_vars

\* The caller of score_quiz hands the topic_scores of the result it got to
\* generate_recommendations, for the same course.
RecommendScored ==
  /\ op = "score_quiz"
  /\ ret.kind = "return"
  /\ \E threshold \in ThresholdInputs :
      /\ op' = "recommend_scored"
      /\ args' = [course_id |-> args.course_id, answers |-> args.answers,
                  scored |-> ret.value,
                  topic_scores |-> ret.value.topic_scores,
                  threshold |-> threshold]
      /\ ret' = Return(generate_recommendations(course_resources,
                         args.course_id, ret.value.topic_scores, threshold))
      /\ UNCHANGED <<quizzes, course_resources, results_storage, earlier,
                     notes_storage, written, session_state>>

\* a QuizService over a five-question bank and a RecommendationEngine
InitScenario ==
  /\ quizzes \in ScenarioTables
  /\ course_resources = RealCourseResources
  /\ results_storage = <<>>
  /\ earlier = NothingKept
  /\ notes_storage = <<>>
  /\ written = NothingWritten
  /\ session_state = NoSession
  /\ op = "idle"
  /\ args = <<>>
  /\ ret = [kind |-> "none"]

NextScenario == ScoreQuiz \/ RecommendScored \/ TakeResult

SpecScenario == InitScenario /\ [][NextScenario]_vars

GetTopics ==
  /\ Idle
  /\ \E course_id \in CourseInputs :
      \E topics \in get_topics(quizzes, course_id) :
        /\ op' = "get_topics"
        /\ args' = [course_id |-> course_id]
        /\ ret' = Return(topics)
        /\ UNCHANGED <<quizzes, course_resources, results_storage, earlier,
                       notes_storage, written, session_state>>

ValidateAnswers ==
  /\ Idle
  /\ \E course_id \in CourseInputs :
      \E answers \in AnswerInputs(quizzes, course_id) :
      \E result \in validate_answers(quizzes, course_id, answers) :
        /\ op' = "validate_answers"
        /\ args' = [course_id |-> course_id, answers |-> answers]
        /\ ret' = Return(result)
        /\ UNCHANGED <<quizzes, course_resources, results_storage, earlier,
                       notes_storage, written, session_state>>

\* The caller keeps one score_quiz call, with its outcome, for later.
KeepResult ==
  /\ op = "score_quiz"
  /\ earlier = NothingKept
  /\ earlier' = [kept |-> TRUE, course_id |-> args.course_id,
                 answers |-> args.answers, ret |-> ret,
                 stored |-> Len(results_storage)]
  /\ op' = "idle"
  /\ args' = <<>>
  /\ ret' = [kind |-> "none"]
  /\ UNCHANGED <<quizzes, course_resources, results_storage, notes_storage,
                 written, session_state>>

\* a bank of two questions on two topics
SharedTable ==
  GenCourse :> <<GenQuestion(1, "development", 2),
                 GenQuestion(2, "architecture", 1)>>

\* two banks of two questions for the calls that are repeated
RepeatTables ==
  {SharedTable,
   GenCourse :> <<GenQuestion(1, "architecture", 1),
                  GenQuestion(2, "architecture", 2)>>}

\* the router and a QuizService whose caller keeps a result
InitRepeat ==
  /\ quizzes \in RepeatTables
  /\ course_resources = RealCourseResources
  /\ results_storage = <<>>
  /\ earlier = NothingKept
  /\ notes_storage = <<>>
  /\ written = NothingWritten
  /\ session_state = NoSession
  /\ op = "idle"
  /\ args = <<>>
  /\ ret = [kind |-> "none"]

NextRepeat == ScoreQuiz \/ SubmitQuiz \/ KeepResult \/ TakeResult

SpecRepeat == InitRepeat /\ [][NextRepeat]_vars

\* a QuizService and a RecommendationEngine used by any number of requests.
\* A request handler is a coroutine that never awaits, so the service calls
\* of different requests do not overlap; they follow one another in any
\* order.
InitShared ==
  /\ quizzes = SharedTable
  /\ course_resources = RealCourseResources
  /\ results_storage = <<>>
  /\ earlier = NothingKept
  /\ notes_storage = <<>>
  /\ written = NothingWritten
  /\ session_state = NoSession
  /\ op = "idle"
  /\ args = <<>>
  /\ ret = [kind |-> "none"]

NextShared ==
  \/ ScoreQuiz
  \/ ValidateAnswers
  \/ GetTopics
  \/ GenerateRecommendations
  \/ TakeResult

SpecShared == InitShared /\ [][NextShared]_vars

(***************************************************************************)
(* frontend/pages/5_results.py: the results page computes its own          *)
(* recommendations from the topic_scores kept in the session.              *)
(***************************************************************************)
PageCourseRecommendations ==
  "xm-cloud-101" :>
    [fundamentals |->
        [module |-> "Module 1: Introduction to XM Cloud",
         artifact |-> "mindmap",
         tip |-> "Review the core concepts and architecture overview"],
      development |->
        [module |-> "Module 4: Component Development",
         artifact |-> "slides",
         tip |-> "Practice creating components with the JSS SDK"],
      architecture |->
        [module |-> "Module 2: Architecture Overview",
         artifact |-> "mindmap",
         tip |-> "Study the headless architecture diagram"],
      deployment |->
        [module |-> "Module 5: Deployment & Publishing",
         artifact |-> "summary",
         tip |-> "Follow the deployment checklist step by step"]] @@
  "search-fundamentals" :>
    [indexing |->
        [module |-> "Module 1 & 2: Search Architecture & Indexing",
         artifact |-> "mindmap",
         tip |-> "Understand when and how to rebuild indexes"],
      facets |->
        [module |-> "Module 4: Faceted Search",
         artifact |-> "slides",
         tip |-> "Practice creating facet configurations"],
      optimization |->
        [module |-> "Module 3: Query Optimization",
         artifact |-> "summary",
         tip |-> "Learn about boosting and relevance tuning"]] @@
  "content-hub-101" :>
    [dam |->
        [module |-> "Module 2: Asset Management",
         artifact |-> "mindmap",
         tip |-> "Explore different asset types and metadata"],
      cmp |->
        [module |-> "Module 3: Content Operations",
         artifact |-> "slides",
         tip |-> "Understand the content lifecycle"],
      workflows |->
        [module |-> "Module 5: Workflows & Approvals",
         artifact |-> "summary",
         tip |-> "Practice creating approval workflows"],
      integration |->
        [module |-> "Module 4: Integration Patterns",
         artifact |-> "slides",
         tip |-> "Review API documentation and examples"]]

\* the default of course_recs.get(topic, {...})
PageDefault(topic) ==
  [module |-> "Review " \o StrTitle(StrReplace(topic, "_", " ")) \o " section",
   artifact |-> "summary",
   tip |-> "Focus on " \o StrReplace(topic, "_", " ") \o " concepts"]

\* PageDefault on the model's topic names, evaluated once
PageDefaults == [topic \in Range(TopicKeys) |-> PageDefault(topic)]

\* pct = (scores["correct"] / scores["total"] * 100) if scores["total"] > 0
\* else 0
PagePercentage(scores) ==
  IF scores.total > 0 THEN Num(scores.correct * 100, scores.total)
  ELSE Whole(0)

\* "high" if pct < 50 else "medium"
PagePriority(pct) == IF Lt(pct, Whole(50)) THEN "high" ELSE "medium"

PageRecommend(course_recs, topic, pct) ==
  LET rec == IF topic \in DOMAIN course_recs THEN course_recs[topic]
             ELSE IF topic \in DOMAIN PageDefaults THEN PageDefaults[topic]
             ELSE PageDefault(topic)
  IN  [topic |-> topic, score |-> pct, priority |-> PagePriority(pct),
       module |-> rec.module, artifact |-> rec.artifact, tip |-> rec.tip]

\* the loop over topic_scores.items(), entry i onwards
RECURSIVE PageLoop(_, _, _, _)
PageLoop(course_recs, topic_scores, i, recommendations) ==
  IF i > Len(topic_scores) THEN recommendations
  ELSE LET scores == topic_scores[i]
           pct == PagePercentage(scores)
       IN  PageLoop(course_recs, topic_scores, i + 1,
             IF Lt(pct, Whole(70))
               THEN Append(recommendations,
                           PageRecommend(course_recs, scores.topic, pct))
               ELSE recommendations)

\* x goes before the first element whose score is greater than its own
RECURSIVE PageInsert(_, _)
PageInsert(sorted, x) ==
  IF sorted = <<>> THEN <<x>>
  ELSE IF Lt(x.score, Head(sorted).score) THEN <<x>> \o sorted
  ELSE <<Head(sorted)>> \o PageInsert(Tail(sorted), x)

\* recommendations.sort(key=lambda x: x["score"]): stable
RECURSIVE PageSort(_)
PageSort(recommendations) ==
  IF recommendations = <<>> THEN <<>>
  ELSE PageInsert(
         PageSort(SubSeq(recommendations, 1, Len(recommendations) - 1)),
         recommendations[Len(recommendations)])

\* generate_recommendations(results, course_id) of the results page
page_generate_recommendations(results, course_id) ==
  LET topic_scores == DictGet(results, "topic_scores", <<>>)
      course_recs == DictGet(PageCourseRecommendations, course_id, <<>>)
  IN  PageSort(PageLoop(course_recs, topic_scores, 1, <<>>))

\* topic_scores as the quiz page keeps them in the session: per topic the
\* number of correct answers out of at most MaxTotal questions
PageScoreInputs ==
  UNION {{[correct |-> c, total |-> t] : c \in 0..t} : t \in 1..MaxTotal}

ResultsPage ==
  /\ Idle
  /\ \E course_id \in {"xm-cloud-101", UnknownCourse} :
      \E k \in 0..Min(MaxPageTopics, Len(TopicKeys)) :
      \E f \in [1..k -> PageScoreInputs] :
        LET results == [topic_scores |-> TopicScoresOf(k, f)]
        IN  /\ op' = "results_page"
            /\ args' = [results |-> results, course_id |-> course_id]
            /\ ret' = Return(page_generate_recommendations(results,
                                                           course_id))
            /\ UNCHANGED <<quizzes, course_resources, results_storage,
                           earlier, notes_storage, written, session_state>>

\* the results page next to a RecommendationEngine
InitPage ==
  /\ quizzes = <<>>
  /\ course_resources = RealCourseResources
  /\ results_storage = <<>>
  /\ earlier = NothingKept
  /\ notes_storage = <<>>
  /\ written = NothingWritten
  /\ session_state = NoSession
  /\ op = "idle"
  /\ args = <<>>
  /\ ret = [kind |-> "none"]

NextPage == ResultsPage \/ TakeResult

SpecPage == InitPage /\ [][NextPage]_vars

(***************************************************************************)
(* routers/notes.py: one note per "user_id:course_id" key, kept in         *)
(* notes_storage.                                                          *)
(***************************************************************************)
\* f"{user_id}:{course_id}"
get_storage_key(user_id, course_id) == user_id \o ":" \o course_id

\* del storage[key]: the other entries keep their order
DictDel(storage, key) == SelectSeq(storage, LAMBDA e : e.key # key)

DictValue(storage, key) ==
  storage[CHOOSE i \in 1..Len(storage) : storage[i].key = key].value

\* len(content.split()) if content else 0: the words are the maximal runs of
\* characters other than blanks
WordCount(content) ==
  Cardinality({i \in 1..Len(content) :
                 /\ CharAt(content, i) # " "
                 /\ (i = 1 \/ CharAt(content, i - 1) = " ")})

NoteResponse(user_id, course_id, content, last_updated) ==
  [user_id |-> user_id, course_id |-> course_id, content |-> content,
   last_updated |-> last_updated, word_count |-> WordCount(content)]

get_notes(storage, user_id, course_id, now) ==
  LET key == get_storage_key(user_id, course_id)
  IN  IF ~HasKey(storage, key)
        THEN Return([user_id |-> user_id, course_id |-> course_id,
                     content |-> "", last_updated |-> now, word_count |-> 0])
        ELSE LET note == DictValue(storage, key)
             IN  Return(NoteResponse(user_id, course_id, note.content,
                                     note.last_updated))

\* the outcome of create_notes and the storage it leaves
create_notes(storage, user_id, course_id, note, now) ==
  LET key == get_storage_key(user_id, course_id)
      stored == DictSet(storage, key,
                        [content |-> note.content, last_updated |-> now])
  IN  [ret |-> Return(NoteResponse(user_id, course_id, note.content,
                                   DictValue(stored, key).last_updated)),
       storage |-> stored]

\* the outcome of update_notes and the storage it leaves
update_notes(storage, user_id, course_id, note, now) ==
  LET key == get_storage_key(user_id, course_id)
      stored == DictSet(storage, key,
                        [content |-> note.content, last_updated |-> now])
  IN  [ret |-> Return(NoteResponse(user_id, course_id, note.content,
                                   DictValue(stored, key).last_updated)),
       storage |-> stored]

\* the outcome of delete_notes and the storage it leaves
delete_notes(storage, user_id, course_id) ==
  LET key == get_storage_key(user_id, course_id)
  IN  [ret |-> Return([status |-> "deleted", user_id |-> user_id,
                       course_id |-> course_id]),
       storage |-> IF HasKey(storage, key) THEN DictDel(storage, key)
                   ELSE storage]

\* s.startswith(prefix)
StartsWith(s, prefix) ==
  /\ Len(s) >= Len(prefix)
  /\ SubSeq(s, 1, Len(prefix)) = prefix

\* the position of the first sep in s from position i on, Len(s) + 1 if none
RECURSIVE FindFrom(_, _, _)
FindFrom(s, sep, i) ==
  IF i > Len(s) THEN Len(s) + 1
  ELSE IF CharAt(s, i) = sep THEN i
  ELSE FindFrom(s, sep, i + 1)

\* key.split(":")[1], for a key that holds a ":"
SecondField(key) ==
  LET first == FindFrom(key, ":", 1)
      second == FindFrom(key, ":", first + 1)
  IN  SubSeq(key, first + 1, second - 1)

\* the loop over notes_storage.items(), entry i onwards
RECURSIVE UserNotesLoop(_, _, _, _)
UserNotesLoop(storage, user_id, i, user_notes) ==
  IF i > Len(storage) THEN user_notes
  ELSE UserNotesLoop(storage, user_id, i + 1,
         IF StartsWith(storage[i].key, user_id \o ":")
           THEN Append(user_notes,
                  [course_id |-> SecondField(storage[i].key),
                   content |-> storage[i].value.content,
                   last_updated |-> storage[i].value.last_updated,
                   word_count |-> WordCount(storage[i].value.content)])
           ELSE user_notes)

get_all_user_notes(storage, user_id) ==
  Return([user_id |-> user_id,
          notes |-> UserNotesLoop(storage, user_id, 1, <<>>)])

\* course ids of the notes requests: one id is the other preceded by the
\* tail of a user id and ":"
NoteCourses == {"c", "b:c"}

\* note.content
NoteContents == {"", "one", " two  words "}

\* the record of notes with the pair's note set to content
NoteWritten(user_id, course_id, content) ==
  [written EXCEPT !.notes = (<<user_id, course_id>> :> content) @@ @]

\* the record of notes without a note for the pair
NoteErased(user_id, course_id) ==
  [written EXCEPT
     !.notes = [pair \in DOMAIN @ \ {<<user_id, course_id>>} |-> @[pair]]]

GetNotes ==
  /\ Idle
  /\ \E user_id \in IdUsers, course_id \in NoteCourses, now \in ClockInputs :
      /\ op' = "get_notes"
      /\ args' = [user_id |-> user_id, course_id |-> course_id]
      /\ ret' = get_notes(notes_storage, user_id, course_id, now)
      /\ UNCHANGED <<quizzes, course_resources, results_storage, earlier,
                     notes_storage, written, session_state>>

CreateNotes ==
  /\ Idle
  /\ \E user_id \in IdUsers, course_id \in NoteCourses :
      \E content \in NoteContents, now \in ClockInputs :
        LET out == create_notes(notes_storage, user_id, course_id,
                                [content |-> content], now)
        IN  /\ op' = "create_notes"
            /\ args' = [user_id |-> user_id, course_id |-> course_id,
                        note |-> [content |-> content]]
            /\ ret' = out.ret
            /\ notes_storage' = out.storage
            /\ written' = NoteWritten(user_id, course_id, content)
            /\ UNCHANGED <<quizzes, course_resources, results_storage,
                           earlier, session_state>>

UpdateNotes ==
  /\ Idle
  /\ \E user_id \in IdUsers, course_id \in NoteCourses :
      \E content \in NoteContents, now \in ClockInputs :
        LET out == update_notes(notes_storage, user_id, course_id,
                                [content |-> content], now)
        IN  /\ op' = "update_notes"
            /\ args' = [user_id |-> user_id, course_id |-> course_id,
                        note |-> [content |-> content]]
            /\ ret' = out.ret
            /\ notes_storage' = out.storage
            /\ written' = NoteWritten(user_id, course_id, content)
            /\ UNCHANGED <<quizzes, course_resources, results_storage,
                           earlier, session_state>>

DeleteNotes ==
  /\ Idle
  /\ \E user_id \in IdUsers, course_id \in NoteCourses :
      LET out == delete_notes(notes_storage, user_id, course_id)
      IN  /\ op' = "delete_notes"
          /\ args' = [user_id |-> user_id, course_id |-> course_id]
          /\ ret' = out.ret
          /\ notes_storage' = out.storage
          /\ written' = NoteErased(user_id, course_id)
          /\ UNCHANGED <<quizzes, course_resources, results_storage, earlier,
                         session_state>>

GetAllUserNotes ==
  /\ Idle
  /\ \E user_id \in IdUsers :
      /\ op' = "get_all_user_notes"
      /\ args' = [user_id |-> user_id]
      /\ ret' = get_all_user_notes(notes_storage, user_id)
      /\ UNCHANGED <<quizzes, course_resources, results_storage, earlier,
                     notes_storage, written, session_state>>

\* the notes router alone
InitNotes ==
  /\ quizzes = <<>>
  /\ course_resources = <<>>
  /\ results_storage = <<>>
  /\ earlier = NothingKept
  /\ notes_storage = <<>>
  /\ written = NothingWritten
  /\ session_state = NoSession
  /\ op = "idle"
  /\ args = <<>>
  /\ ret = [kind |-> "none"]

NextNotes ==
  \/ GetNotes
  \/ CreateNotes
  \/ UpdateNotes
  \/ DeleteNotes
  \/ GetAllUserNotes
  \/ TakeResult

SpecNotes == InitNotes /\ [][NextNotes]_vars

(***************************************************************************)
(* routers/quiz.py: reading the stored results.                            *)
(***************************************************************************)
get_results(storage, user_id, course_id) ==
  LET storage_key == user_id \o ":" \o course_id
  IN  IF ~HasKey(storage, storage_key)
        THEN Raise(404, "Results not found")
        ELSE Return(DictValue(storage, storage_key))

\* the loop over results_storage.items(), entry i onwards
RECURSIVE UserResultsLoop(_, _, _, _)
UserResultsLoop(storage, user_id, i, user_results) ==
  IF i > Len(storage) THEN user_results
  ELSE UserResultsLoop(storage, user_id, i + 1,
         IF StartsWith(storage[i].key, user_id \o ":")
           THEN Append(user_results, storage[i].value)
           ELSE user_results)

get_all_results(storage, user_id) ==
  Return([user_id |-> user_id,
          results |-> UserResultsLoop(storage, user_id, 1, <<>>)])

\* course ids of the requests for results: the course with a bank, that id
\* preceded by the tail of a user id and ":", and a course without a bank
ResultCourses == {GenCourse, "b:" \o GenCourse, UnknownCourse}

GetResults ==
  /\ Idle
  /\ \E user_id \in IdUsers, course_id \in ResultCourses :
      /\ op' = "get_results"
      /\ args' = [user_id |-> user_id, course_id |-> course_id]
      /\ ret' = get_results(results_storage, user_id, course_id)
      /\ UNCHANGED <<quizzes, course_resources, results_storage, earlier,
                     notes_storage, written, session_state>>

GetAllResults ==
  /\ Idle
  /\ \E user_id \in IdUsers :
      /\ op' = "get_all_results"
      /\ args' = [user_id |-> user_id]
      /\ ret' = get_all_results(results_storage, user_id)
      /\ UNCHANGED <<quizzes, course_resources, results_storage, earlier,
                     notes_storage, written, session_state>>

\* the quiz router with several users
InitResults ==
  /\ quizzes = ResultsTable
  /\ course_resources = RealCourseResources
  /\ results_storage = <<>>
  /\ earlier = NothingKept
  /\ notes_storage = <<>>
  /\ written = NothingWritten
  /\ session_state = NoSession
  /\ op = "idle"
  /\ args = <<>>
  /\ ret = [kind |-> "none"]

NextResults == SubmitQuiz \/ GetResults \/ GetAllResults \/ TakeResult

SpecResults == InitResults /\ [][NextResults]_vars

(***************************************************************************)
(* RecommendationEngine.get_learning_path.                                 *)
(***************************************************************************)
\* longest list of completed courses drawn for get_learning_path
MaxCompleted == 3

all_courses ==
  <<[id |-> "xm-cloud-101", title |-> "XM Cloud Fundamentals",
     prereqs |-> <<>>],
    [id |-> "search-fundamentals", title |-> "Search Fundamentals",
     prereqs |-> <<"xm-cloud-101">>],
    [id |-> "content-hub-101", title |-> "Content Hub Basics",
     prereqs |-> <<>>]>>

\* x in xs, for a list xs
InList(x, xs) == \E i \in 1..Len(xs) : xs[i] = x

\* faulty variant: the prerequisites are not looked at
prereqs_metAlways(course, completed_courses) == TRUE

\* all(p in completed_courses for p in course["prereqs"])
prereqs_met(course, completed_courses) ==
  \A i \in 1..Len(course.prereqs) :
    InList(course.prereqs[i], completed_courses)

\* the loop over all_courses, course i onwards
RECURSIVE PathLoop(_, _, _)
PathLoop(completed_courses, i, suggestions) ==
  IF i > Len(all_courses) THEN suggestions
  ELSE LET course == all_courses[i]
       IN  PathLoop(completed_courses, i + 1,
             IF InList(course.id, completed_courses) THEN suggestions
             ELSE IF prereqs_met(course, completed_courses)
               THEN Append(suggestions,
                      [course_id |-> course.id,
                       title |-> course.title,
                       reason |-> IF course.prereqs # <<>>
                                    THEN "Prerequisites completed"
                                    ELSE "Great starting point",
                       recommended |-> TRUE])
               ELSE suggestions)

get_learning_path(completed_courses, quiz_scores) ==
  Return(PathLoop(completed_courses, 1, <<>>))

\* ids of completed courses: the three of all_courses and one more
CompletedIds ==
  {"xm-cloud-101", "search-fundamentals", "content-hub-101", "cdp-101"}

\* lists of completed courses, in any order and with repetitions
CompletedInputs ==
  UNION {[1..n -> CompletedIds] : n \in 0..MaxCompleted}

\* quiz score percentages by course id
QuizScoreInputs ==
  {<<>>,
   <<[key |-> "xm-cloud-101", value |-> Num(40, 1)]>>,
   <<[key |-> "xm-cloud-101", value |-> Num(95, 1)],
     [key |-> "cdp-101", value |-> Num(0, 1)]>>}

GetLearningPath ==
  /\ Idle
  /\ \E completed_courses \in CompletedInputs,
        quiz_scores \in QuizScoreInputs :
      /\ op' = "get_learning_path"
      /\ args' = [completed_courses |-> completed_courses,
                  quiz_scores |-> quiz_scores]
      /\ ret' = get_learning_path(completed_courses, quiz_scores)
      /\ UNCHANGED <<quizzes, course_resources, results_storage, earlier,
                     notes_storage, written, session_state>>

InitPath ==
  /\ quizzes = RealQuizzes
  /\ course_resources = RealCourseResources
  /\ results_storage = <<>>
  /\ earlier = NothingKept
  /\ notes_storage = <<>>
  /\ written = NothingWritten
  /\ session_state = NoSession
  /\ op = "idle"
  /\ args = <<>>
  /\ ret = [kind |-> "none"]

NextPath == GetLearningPath \/ TakeResult

SpecPath == InitPath /\ [][NextPath]_vars

(***************************************************************************)
(* services/discovery_agent.py: DiscoveryAgent.  The texts are those of    *)
(* the source without their emoji characters.                              *)
(***************************************************************************)
\* sub in s, for strings
Contains(s, sub) ==
  \E i \in 1..(Len(s) - Len(sub) + 1) : SubSeq(s, i, i + Len(sub) - 1) = sub

\* str.capitalize()
StrCapitalize(s) ==
  IF Len(s) = 0 THEN ""
  ELSE CharUpper(CharAt(s, 1)) \o StrLower(SubSeq(s, 2, Len(s)))

\* sep.join(parts)
RECURSIVE StrJoin(_, _)
StrJoin(sep, parts) ==
  IF Len(parts) = 0 THEN ""
  ELSE IF Len(parts) = 1 THEN parts[1]
  ELSE parts[1] \o sep \o StrJoin(sep, Tail(parts))

\* DiscoveryAgent._load_courses
courses ==
  <<[course_id |-> "xm-cloud-101",
     title |-> "XM Cloud Fundamentals",
     keywords |-> <<"developer", "technical", "headless", "cms", "react",
                    "nextjs", "architecture">>,
     difficulty |-> "beginner",
     roles |-> <<"developer", "architect", "technical">>,
     description |->
       "Learn the basics of XM Cloud architecture and implementation"],
    [course_id |-> "search-fundamentals",
     title |-> "Sitecore Search Fundamentals",
     keywords |-> <<"search", "indexing", "optimization", "technical",
                    "performance">>,
     difficulty |-> "intermediate",
     roles |-> <<"developer", "architect", "admin">>,
     description |->
       "Master Sitecore Search configuration and optimization"],
    [course_id |-> "content-hub-101",
     title |-> "Content Hub Basics",
     keywords |-> <<"content", "marketing", "dam", "assets", "workflow",
                    "digital", "media">>,
     difficulty |-> "beginner",
     roles |-> <<"marketer", "content author", "admin", "content",
                 "marketing">>,
     description |-> "Introduction to Sitecore Content Hub DAM and CMP"]>>

role_keywords ==
  <<[key |-> "developer",
     value |-> <<"developer", "dev", "engineer", "programmer", "code",
                 "coding", "technical">>],
    [key |-> "marketer",
     value |-> <<"marketing", "marketer", "content", "campaign",
                 "digital marketing">>],
    [key |-> "architect",
     value |-> <<"architect", "design", "system", "infrastructure">>],
    [key |-> "admin",
     value |-> <<"admin", "administrator", "manage", "configuration">>],
    [key |-> "content_author",
     value |-> <<"author", "writer", "content creator", "editor">>]>>

interest_keywords ==
  <<[key |-> "headless", value |-> <<"headless", "api", "decoupled">>],
    [key |-> "search", value |-> <<"search", "find", "index", "query">>],
    [key |-> "content", value |-> <<"content", "dam", "asset", "media">>],
    [key |-> "development",
     value |-> <<"develop", "build", "create", "component">>],
    [key |-> "workflow",
     value |-> <<"workflow", "process", "automation">>]>>

\* the role of a message without a role: None, which the code only tests
\* for truth, is written as the empty string, false as well
NoRole == ""

\* any(kw in message_lower for kw in keywords)
AnyKeyword(message_lower, keywords) ==
  \E i \in 1..Len(keywords) : Contains(message_lower, keywords[i])

\* the first role whose keywords match, NoRole when no role matches
DetectRole(message_lower) ==
  LET hits == {i \in 1..Len(role_keywords) :
                 AnyKeyword(message_lower, role_keywords[i].value)}
  IN  IF hits = {} THEN NoRole
      ELSE role_keywords[CHOOSE i \in hits : \A j \in hits : i <= j].key

\* the interests whose keywords match, in the order of interest_keywords
RECURSIVE DetectInterests(_, _)
DetectInterests(message_lower, i) ==
  IF i > Len(interest_keywords) THEN <<>>
  ELSE (IF AnyKeyword(message_lower, interest_keywords[i].value)
          THEN <<interest_keywords[i].key>> ELSE <<>>)
         \o DetectInterests(message_lower, i + 1)

analyze_message(message) ==
  LET message_lower == StrLower(message)
      detected_role == DetectRole(message_lower)
      detected_interests == DetectInterests(message_lower, 1)
  IN  [detected_role |-> detected_role,
       detected_skills |-> <<>>,
       detected_interests |-> detected_interests,
       should_recommend |->
         detected_role # NoRole \/ Len(detected_interests) >= 2]

\* the interest matching of one course: score and reason parts
RECURSIVE InterestLoop(_, _, _, _)
InterestLoop(course, interests, i, acc) ==
  IF i > Len(interests) THEN acc
  ELSE InterestLoop(course, interests, i + 1,
         IF InList(interests[i], course.keywords)
           THEN [score |-> acc.score + 2,
                 reason_parts |->
                   Append(acc.reason_parts, "covers " \o interests[i])]
           ELSE acc)

\* the keyword matching of one course: one point for every keyword found
\* in the joined interests
KeywordScore(course, interests) ==
  Cardinality({i \in 1..Len(course.keywords) :
                 Contains(StrLower(StrJoin(" ", interests)),
                          course.keywords[i])})

\* score and reason of one course for the profile
CourseMatch(course, role, interests) ==
  LET by_role ==
        IF role # NoRole /\ InList(role, course.roles)
          THEN [score |-> 3,
                reason_parts |-> <<"great for " \o role \o "s">>]
          ELSE [score |-> 0, reason_parts |-> <<>>]
      by_interest == InterestLoop(course, interests, 1, by_role)
      parts == by_interest.reason_parts
  IN  [score |-> by_interest.score + KeywordScore(course, interests),
       reason |->
         IF parts # <<>>
           THEN StrJoin(", ", SubSeq(parts, 1, IF Len(parts) < 2
                                                  THEN Len(parts) ELSE 2))
           ELSE "recommended based on your profile"]

\* faulty variant: the lower score comes first
ComesBeforeAscending(a, b) == a.score <= b.score

\* sort(key=score, reverse=True): a stays before b
ComesBefore(a, b) == a.score >= b.score

\* insertion of x into a list sorted by ComesBefore, after its equals
RECURSIVE InsertByScore(_, _)
InsertByScore(sorted, x) ==
  IF sorted = <<>> THEN <<x>>
  ELSE IF ComesBefore(sorted[1], x)
    THEN <<sorted[1]>> \o InsertByScore(Tail(sorted), x)
    ELSE <<x>> \o sorted

RECURSIVE SortByScore(_)
SortByScore(list) ==
  IF list = <<>> THEN <<>>
  ELSE InsertByScore(SortByScore(SubSeq(list, 1, Len(list) - 1)),
                     list[Len(list)])

\* the loop over self.courses, course i onwards
RECURSIVE MatchLoop(_, _, _, _)
MatchLoop(role, interests, i, scored_courses) ==
  IF i > Len(courses) THEN scored_courses
  ELSE LET course == courses[i]
           match == CourseMatch(course, role, interests)
       IN  MatchLoop(role, interests, i + 1,
             IF match.score > 0
               THEN Append(scored_courses,
                      [course_id |-> course.course_id,
                       title |-> course.title,
                       score |-> match.score,
                       reason |-> StrCapitalize(match.reason)])
               ELSE scored_courses)

match_courses(role, interests) ==
  LET sorted == SortByScore(MatchLoop(role, interests, 1, <<>>))
  IN  SubSeq(sorted, 1, IF Len(sorted) < 3 THEN Len(sorted) ELSE 3)

\* the lines of the message for recommendation i onwards
RECURSIVE CourseLines(_, _)
CourseLines(recommendations, i) ==
  IF i > Len(recommendations) THEN ""
  ELSE "**" \o ToString(i) \o ". " \o recommendations[i].title \o "**\n"
         \o "   _" \o recommendations[i].reason \o "_\n\n"
         \o CourseLines(recommendations, i + 1)

generate_recommendation_message(recommendations, role, interests) ==
  LET role_text == IF role # NoRole THEN "as a " \o role ELSE ""
      interest_text ==
        IF interests # <<>>
          THEN "interested in " \o StrJoin(", ", interests) ELSE ""
      profile_description ==
        StrJoin(" ", SelectSeq(<<role_text, interest_text>>,
                               LAMBDA t : t # ""))
  IN  "Based on what you've shared"
        \o (IF profile_description # ""
              THEN " " \o profile_description ELSE "")
        \o ", I've found some perfect courses for you!\n\n"
        \o " **Here are my recommendations:**\n\n"
        \o CourseLines(recommendations, 1)
        \o "These courses will give you a solid foundation. Select the "
        \o "ones that interest you most to get started!\n\n"
        \o "Would you like more details about any of these courses, or "
        \o "are you ready to begin?"

generate_followup_message(role, interests, turn_count) ==
  IF role = NoRole
    THEN "That's helpful! To give you the best recommendations, could "
           \o "you tell me a bit more about:\n\n"
           \o "- **Your role**: Are you a developer, marketer, content "
           \o "author, or administrator?\n"
           \o "- **Your experience**: Are you new to Sitecore products or "
           \o "looking to level up existing skills?\n\n"
           \o "This helps me match you with the right courses! "
  ELSE IF interests = <<>>
    THEN "Great to know you're a " \o role \o "! \n\n"
           \o "What specific areas are you most interested in learning "
           \o "about?\n\nFor example:\n"
           \o "-  **Architecture & Development** - Building with modern "
           \o "frameworks\n"
           \o "-  **Search & Discovery** - Content findability and "
           \o "optimization  \n"
           \o "-  **Content Management** - Digital assets and workflows\n"
           \o "-  **Performance** - Speed and optimization\n\n"
           \o "What catches your attention?"
  ELSE "Thanks for sharing! I think I have enough information to suggest "
         \o "some courses.\n\n"
         \o "Let me find the best matches for your learning goals... "

\* the user messages of a history
UserMessages(history) == SelectSeq(history, LAMBDA msg : msg.role = "user")

\* the role after the loop over the history, message i onwards
RECURSIVE HistoryRole(_, _, _)
HistoryRole(history, i, detected_role) ==
  IF i > Len(history) THEN detected_role
  ELSE HistoryRole(history, i + 1,
         IF history[i].role = "user"
              /\ analyze_message(history[i].content).detected_role # NoRole
              /\ detected_role = NoRole
           THEN analyze_message(history[i].content).detected_role
           ELSE detected_role)

\* the interests of the current message and of the user messages of the
\* history, as a set
AllInterests(message, history) ==
  Range(analyze_message(message).detected_interests)
    \cup UNION {Range(analyze_message(history[i].content).detected_interests)
                  : i \in {j \in 1..Len(history) : history[j].role = "user"}}

\* the response for one order of the interests
Response(should_recommend, detected_role, all_interests, turn_count) ==
  LET recommendations == match_courses(detected_role, all_interests)
  IN  IF should_recommend /\ recommendations # <<>>
        THEN [message |-> generate_recommendation_message(
                            recommendations, detected_role, all_interests),
              has_recommendations |-> TRUE,
              recommended_courses |-> recommendations,
              conversation_complete |-> TRUE]
        ELSE [message |-> generate_followup_message(
                            detected_role, all_interests, turn_count),
              has_recommendations |-> FALSE,
              recommended_courses |-> <<>>,
              conversation_complete |-> FALSE]

\* every response process_message may give: list(set(all_interests)) may
\* list the interests in any order
process_message(message, history) ==
  LET turn_count == Len(UserMessages(history))
      analysis == analyze_message(message)
      detected_role == HistoryRole(history, 1, analysis.detected_role)
      interests == AllInterests(message, history)
      should_recommend ==
        analysis.should_recommend \/ turn_count >= 2
          \/ Cardinality(interests) >= 2
  IN  {Response(should_recommend, detected_role, all_interests, turn_count) :
         all_interests \in ListsOfSet(interests)}

(***************************************************************************)
(* routers/discovery.py and pages/2_discovery.py: the conversation.        *)
(***************************************************************************)
\* most user messages of one conversation
MaxTurns == 6

\* DiscoveryAgent.max_turns
max_turns == 5

\* the response as DiscoveryResponse serialises it: the courses without
\* their score
DiscoveryResponse(response) ==
  [message |-> response.message,
   has_recommendations |-> response.has_recommendations,
   recommended_courses |->
     [i \in 1..Len(response.recommended_courses) |->
        [course_id |-> response.recommended_courses[i].course_id,
         title |-> response.recommended_courses[i].title,
         reason |-> response.recommended_courses[i].reason]],
   conversation_complete |-> response.conversation_complete]

initial_message ==
  [role |-> "assistant",
   content |->
     " Hello! I'm your Course Discovery Agent.\n\n"
       \o "I'll help you find the perfect learning path. Let me ask you "
       \o "a few questions:\n\n**To get started, tell me:**\n"
       \o "1. What is your current role? (e.g., Developer, Marketer, "
       \o "Content Author)\n"
       \o "2. What's your experience level with Sitecore products?\n"
       \o "3. What are you hoping to achieve or learn?\n\n"
       \o "Feel free to share as much or as little as you'd like!"]

\* what the user types
PromptInputs ==
  {"hello", "I am a writer", "find", "I am a Developer", "headless search",
   "Marketing workflow"}

\* render_chat_interface without messages: the greeting is shown
InitialGreeting ==
  /\ Idle
  /\ session_state.discovery_messages = <<>>
  /\ session_state' =
       [session_state EXCEPT !.discovery_messages = <<initial_message>>]
  /\ UNCHANGED <<quizzes, course_resources, results_storage, op, args, ret,
                 earlier, notes_storage, written>>

\* the chat input, answered by /api/discover
ChatInput ==
  /\ Idle
  /\ session_state.discovery_messages # <<>>
  /\ ~session_state.discovery_complete
  /\ Len(UserMessages(session_state.discovery_messages)) < MaxTurns
  /\ \E prompt \in PromptInputs :
      \E agent_response \in
           process_message(prompt, session_state.discovery_messages) :
        LET response == DiscoveryResponse(agent_response)
            assistant_message ==
              [role |-> "assistant",
               content |-> response.message,
               has_recommendations |-> response.has_recommendations,
               courses |-> response.recommended_courses]
        IN  /\ op' = "process_message"
            /\ args' = [message |-> prompt,
                        history |-> session_state.discovery_messages]
            /\ ret' = Return(agent_response)
            /\ session_state' =
                 [discovery_messages |->
                    session_state.discovery_messages
                      \o <<[role |-> "user", content |-> prompt],
                           assistant_message>>,
                  discovery_complete |->
                    IF response.has_recommendations THEN TRUE
                    ELSE session_state.discovery_complete]
            /\ UNCHANGED <<quizzes, course_resources, results_storage,
                           earlier, notes_storage, written>>

\* the "Start Over" button
StartOver ==
  /\ Idle
  /\ session_state.discovery_messages # <<>>
  /\ session_state' = NoSession
  /\ UNCHANGED <<quizzes, course_resources, results_storage, op, args, ret,
                 earlier, notes_storage, written>>

InitDiscovery ==
  /\ quizzes = RealQuizzes
  /\ course_resources = RealCourseResources
  /\ results_storage = <<>>
  /\ earlier = NothingKept
  /\ notes_storage = <<>>
  /\ written = NothingWritten
  /\ session_state = NoSession
  /\ op = "idle"
  /\ args = <<>>
  /\ ret = [kind |-> "none"]

NextDiscovery == InitialGreeting \/ ChatInput \/ StartOver \/ TakeResult

SpecDiscovery == InitDiscovery /\ [][NextDiscovery]_vars

(***************************************************************************)
(* services/rag_chatbot.py: RAGChatbot.  The texts are those of the source *)
(* without their emoji characters.                                         *)
(***************************************************************************)
\* RAGChatbot._load_knowledge_base
knowledge_base ==
  <<[key |-> "xm-cloud-101",
    value |-> <<
       [id |-> "xm-1-1",
        content |->
          "XM Cloud is Sitecore's cloud-native, SaaS content manage"
            \o "ment platform. It provides headless content management w"
            \o "ith a powerful authoring experience through the Experien"
            \o "ce Editor and Pages.",
        module |-> "Module 1",
        timestamp |-> "0:00",
        topic |-> "introduction"],
       [id |-> "xm-1-2",
        content |->
          "The XM Cloud architecture consists of three main compone"
            \o "nts: Content Management (CM) for authoring, Experience E"
            \o "dge for content delivery, and Pages for visual editing.",
        module |-> "Module 2",
        timestamp |-> "5:30",
        topic |-> "architecture"],
       [id |-> "xm-1-3",
        content |->
          "Components in XM Cloud are built using the Sitecore Java"
            \o "Script SDK (JSS) with React or Next.js. Each component m"
            \o "aps to a Sitecore rendering and receives data through th"
            \o "e fields prop.",
        module |-> "Module 4",
        timestamp |-> "15:00",
        topic |-> "development"],
       [id |-> "xm-1-4",
        content |->
          "Deployment to XM Cloud is done through the XM Cloud Depl"
            \o "oy app, which connects to your GitHub repository. Enviro"
            \o "nment variables and secrets are configured in the Deploy"
            \o " dashboard.",
        module |-> "Module 5",
        timestamp |-> "25:00",
        topic |-> "deployment"]>>],
   [key |-> "search-fundamentals",
    value |-> <<
       [id |-> "search-1-1",
        content |->
          "Sitecore Search provides powerful content discovery capa"
            \o "bilities through full-text search, faceted filtering, an"
            \o "d personalized results.",
        module |-> "Module 1",
        timestamp |-> "0:00",
        topic |-> "introduction"],
       [id |-> "search-1-2",
        content |->
          "Search indexes store processed content for fast retrieva"
            \o "l. Indexes can be updated incrementally or rebuilt compl"
            \o "etely when schema changes occur.",
        module |-> "Module 2",
        timestamp |-> "10:00",
        topic |-> "indexing"],
       [id |-> "search-1-3",
        content |->
          "Facets allow users to filter search results by categorie"
            \o "s. Configure facets based on your content taxonomy for b"
            \o "etter discoverability.",
        module |-> "Module 4",
        timestamp |-> "20:00",
        topic |-> "facets"],
       [id |-> "search-1-4",
        content |->
          "Boosting increases the relevance score of certain result"
            \o "s. Use boosting to prioritize recent content, popular it"
            \o "ems, or promoted products.",
        module |-> "Module 3",
        timestamp |-> "15:00",
        topic |-> "optimization"]>>],
   [key |-> "content-hub-101",
    value |-> <<
       [id |-> "ch-1-1",
        content |->
          "Content Hub is Sitecore's unified content management pla"
            \o "tform that combines DAM (Digital Asset Management), CMP "
            \o "(Content Marketing Platform), and MRM (Marketing Resourc"
            \o "e Management).",
        module |-> "Module 1",
        timestamp |-> "0:00",
        topic |-> "introduction"],
       [id |-> "ch-1-2",
        content |->
          "The DAM module provides centralized storage and manageme"
            \o "nt for digital assets including images, videos, document"
            \o "s, and 3D models. Assets can be organized using taxonomi"
            \o "es and metadata.",
        module |-> "Module 2",
        timestamp |-> "10:00",
        topic |-> "dam"],
       [id |-> "ch-1-3",
        content |->
          "Workflows in Content Hub automate content review and app"
            \o "roval processes. Define stages, assignees, and condition"
            \o "s for automated routing.",
        module |-> "Module 5",
        timestamp |-> "25:00",
        topic |-> "workflows"],
       [id |-> "ch-1-4",
        content |->
          "Content Hub integrates with other systems through REST A"
            \o "PIs, webhooks, and connectors. Common integrations inclu"
            \o "de CMS, PIM, and marketing automation platforms.",
        module |-> "Module 4",
        timestamp |-> "20:00",
        topic |-> "integration"]>>]>>

\* the characters str.split() separates words at
IsSpace(c) == c \in {" ", "\t", "\n", "\r"}

\* str.split(): the maximal runs of characters other than white space,
\* from position i on, word being the run read so far
RECURSIVE SplitFrom(_, _, _)
SplitFrom(s, i, word) ==
  IF i > Len(s) THEN (IF word = "" THEN <<>> ELSE <<word>>)
  ELSE IF IsSpace(CharAt(s, i))
    THEN (IF word = "" THEN <<>> ELSE <<word>>) \o SplitFrom(s, i + 1, "")
    ELSE SplitFrom(s, i + 1, word \o CharAt(s, i))

StrSplit(s) == SplitFrom(s, 1, "")

\* the score of one chunk for the words of the query, word i onwards
RECURSIVE ChunkScore(_, _, _, _)
ChunkScore(content_lower, topic_lower, words, i) ==
  IF i > Len(words) THEN 0
  ELSE (IF Contains(content_lower, words[i]) THEN 2 ELSE 0)
         + (IF Contains(topic_lower, words[i]) THEN 3 ELSE 0)
         + ChunkScore(content_lower, topic_lower, words, i + 1)

\* faulty variant: a chunk without any match is kept as well
IsRelevantAlways(score) == TRUE

\* if score > 0
IsRelevant(score) == score > 0

\* the loop over the chunks, chunk i onwards
RECURSIVE ChunkLoop(_, _, _, _)
ChunkLoop(chunks, words, i, scored_chunks) ==
  IF i > Len(chunks) THEN scored_chunks
  ELSE LET chunk == chunks[i]
           score == ChunkScore(StrLower(chunk.content),
                               StrLower(chunk.topic), words, 1)
       IN  ChunkLoop(chunks, words, i + 1,
             IF IsRelevant(score)
               THEN Append(scored_chunks,
                      [id |-> chunk.id, content |-> chunk.content,
                       module |-> chunk.module,
                       timestamp |-> chunk.timestamp,
                       topic |-> chunk.topic, score |-> score])
               ELSE scored_chunks)

\* list[:n] for n >= 0
Prefix(list, n) == SubSeq(list, 1, IF Len(list) < n THEN Len(list) ELSE n)

search_knowledge_base(course_id, query, top_k) ==
  IF ~HasKey(knowledge_base, course_id) THEN <<>>
  ELSE LET query_lower == StrLower(query)
           chunks == DictValue(knowledge_base, course_id)
           scored_chunks == ChunkLoop(chunks, StrSplit(query_lower), 1, <<>>)
       IN  Prefix(SortByScore(scored_chunks), top_k)

course_topics ==
  <<[key |-> "xm-cloud-101",
     value |-> "XM Cloud concepts like architecture, component "
                 \o "development, and deployment"],
    [key |-> "search-fundamentals",
     value |-> "Sitecore Search topics including indexing, facets, and "
                 \o "query optimization"],
    [key |-> "content-hub-101",
     value |-> "Content Hub features like DAM, workflows, and "
                 \o "integrations"]>>

generate_fallback_response(course_id, query) ==
  LET topics == IF HasKey(course_topics, course_id)
                  THEN DictValue(course_topics, course_id)
                  ELSE "the topics covered in this course"
  IN  "I don't have specific information about that in my knowledge base "
        \o "for this course.\n\nHere's what I can help you with:\n- "
        \o topics
        \o "\n\nCould you rephrase your question or ask about a specific "
        \o "topic from the course? I'll do my best to help! "

\* the lines of the related chunks, chunk i onwards
RECURSIVE RelatedLines(_, _)
RelatedLines(context, i) ==
  IF i > Len(context) THEN ""
  ELSE "- " \o Prefix(context[i].content, 100) \o "... _"
         \o context[i].module \o "_\n" \o RelatedLines(context, i + 1)

generate_response(course_id, query, context) ==
  IF context = <<>> THEN generate_fallback_response(course_id, query)
  ELSE LET top_chunk == context[1]
       IN  "Based on the course materials, here's what I found:\n\n**"
             \o top_chunk.content \o "**\n\n* Source: " \o top_chunk.module
             \o " (Timestamp: " \o top_chunk.timestamp \o ")*\n\n"
             \o (IF Len(context) > 1
                   THEN "\n**Related Information:**\n"
                          \o RelatedLines(context, 2)
                   ELSE "")
             \o "\nWould you like me to elaborate on any specific aspect?"

\* top_k of the searches get_response makes
DefaultTopK == 3

get_response(course_id, message) ==
  LET relevant_chunks ==
        search_knowledge_base(course_id, message, DefaultTopK)
  IN  Return(
        [message |-> generate_response(course_id, message, relevant_chunks),
         sources |->
           [i \in 1..Len(relevant_chunks) |->
              [module |-> relevant_chunks[i].module,
               timestamp |-> relevant_chunks[i].timestamp,
               content_type |-> "text",
               relevance_score |-> Num(relevant_chunks[i].score, 10)]]])

\* course ids of the chatbots: the three with a knowledge base and one
\* without
ChatCourses ==
  {"xm-cloud-101", "search-fundamentals", "content-hub-101", "cdp-101"}

\* questions to the chatbot
QueryInputs ==
  {"", "   ", "hello", "xm deployment", "What is DAM", "Facets  index",
   "content", "Workflows and integration platform", "search\tresults"}

\* largest top_k of a search
MaxTopK == 3

SearchKnowledgeBase ==
  /\ Idle
  /\ \E course_id \in ChatCourses, query \in QueryInputs,
        top_k \in 1..MaxTopK :
      /\ op' = "_search_knowledge_base"
      /\ args' = [course_id |-> course_id, query |-> query,
                  top_k |-> top_k]
      /\ ret' = Return(search_knowledge_base(course_id, query, top_k))
      /\ UNCHANGED <<quizzes, course_resources, results_storage, earlier,
                     notes_storage, written, session_state>>

GetResponse ==
  /\ Idle
  /\ \E course_id \in ChatCourses, message \in QueryInputs :
      /\ op' = "get_response"
      /\ args' = [course_id |-> course_id, message |-> message]
      /\ ret' = get_response(course_id, message)
      /\ UNCHANGED <<quizzes, course_resources, results_storage, earlier,
                     notes_storage, written, session_state>>

InitChat ==
  /\ quizzes = RealQuizzes
  /\ course_resources = RealCourseResources
  /\ results_storage = <<>>
  /\ earlier = NothingKept
  /\ notes_storage = <<>>
  /\ written = NothingWritten
  /\ session_state = NoSession
  /\ op = "idle"
  /\ args = <<>>
  /\ ret = [kind |-> "none"]

NextChat == SearchKnowledgeBase \/ GetResponse \/ TakeResult

SpecChat == InitChat /\ [][NextChat]_vars

(***************************************************************************)
(* routers/quiz.py: get_quiz.                                              *)
(***************************************************************************)
\* faulty variant: the question is passed on as the bank holds it
QuizQuestionWhole(q) == q

\* QuizQuestion(id=..., question=..., options=..., topic=...)
QuizQuestion(q) ==
  [id |-> q.id, question |-> q.question, options |-> q.options,
   topic |-> q.topic]

course_titles ==
  <<[key |-> "xm-cloud-101", value |-> "XM Cloud Fundamentals Quiz"],
    [key |-> "search-fundamentals",
     value |-> "Sitecore Search Fundamentals Quiz"],
    [key |-> "content-hub-101", value |-> "Content Hub Basics Quiz"]>>

get_quiz(table, course_id) ==
  LET questions == get_questions(table, course_id)
  IN  IF questions = <<>>
        THEN Raise(404, "Quiz not found for this course")
        ELSE Return(
               [course_id |-> course_id,
                title |-> IF HasKey(course_titles, course_id)
                            THEN DictValue(course_titles, course_id)
                            ELSE course_id \o " Quiz",
                questions |->
                  [i \in 1..Len(questions) |-> QuizQuestion(questions[i])],
                time_limit_minutes |-> 30])

GetQuiz ==
  /\ Idle
  /\ \E course_id \in CourseInputs :
      /\ op' = "get_quiz"
      /\ args' = [course_id |-> course_id]
      /\ ret' = get_quiz(quizzes, course_id)
      /\ UNCHANGED <<quizzes, course_resources, results_storage, earlier,
                     notes_storage, written, session_state>>

\* the endpoint that hands out the questions, over every bank
InitGetQuiz ==
  /\ quizzes \in QuizTables
  /\ course_resources = RealCourseResources
  /\ results_storage = <<>>
  /\ earlier = NothingKept
  /\ notes_storage = <<>>
  /\ written = NothingWritten
  /\ session_state = NoSession
  /\ op = "idle"
  /\ args = <<>>
  /\ ret = [kind |-> "none"]

NextGetQuiz == GetQuiz \/ TakeResult

SpecGetQuiz == InitGetQuiz /\ [][NextGetQuiz]_vars

(***************************************************************************)
(* Claims about QuizService (checked under SpecQuiz).                      *)
(***************************************************************************)
Scored == op = "score_quiz" /\ ret.kind = "return"

Bank == get_questions(quizzes, args.course_id)

RECURSIVE SumOf(_, _)
SumOf(seq, field) ==
  IF seq = <<>> THEN 0 ELSE Head(seq)[field] + SumOf(Tail(seq), field)

\* C1: score_quiz on a non-empty bank returns total = the number of questions
\* and score = the number of questions q with A.get(q.id, -1) = q.correct;
\* keys of A that are no question id change nothing.
C1_ScoreCountsCorrectAnswers ==
  (op = "score_quiz" /\ Bank # <<>>) =>
    /\ ret.kind = "return"
    /\ ret.value.total = Len(Bank)
    /\ ret.value.score =
         Cardinality({i \in 1..Len(Bank) :
            (IF Bank[i].id \in DOMAIN args.answers
               THEN args.answers[Bank[i].id] ELSE -1) = Bank[i].correct})
    /\ LET ids == QuestionIds(Bank) \cap DOMAIN args.answers
           own == [k \in ids |-> args.answers[k]]
       IN  ret.value = score_quiz(quizzes, args.course_id, own)

C1_Witness ==
  /\ Scored /\ Bank # <<>>
  /\ ExtraKey \in DOMAIN args.answers
  /\ QuestionIds(Bank) \ DOMAIN args.answers # {}
  /\ ret.value.score >= 1
  /\ ret.value.score < ret.value.total

\* C2: in a result for a non-empty bank the per-topic totals sum to the
\* result's total and the per-topic correct counts sum to its score.
C2_TopicSums ==
  (op = "score_quiz" /\ Bank # <<>>) =>
    /\ SumOf(ret.value.topic_scores, "total") = ret.value.total
    /\ ret.value.total = Len(Bank)
    /\ SumOf(ret.value.topic_scores, "correct") = ret.value.score

C2_Witness ==
  /\ Scored /\ Bank # <<>>
  /\ Len(ret.value.topic_scores) >= 2
  /\ ret.value.score >= 1
  /\ \E i \in 1..Len(ret.value.topic_scores) :
       /\ ret.value.topic_scores[i].total >= 2
       /\ ret.value.topic_scores[i].correct = 1

\* C5: a question the answer map omits is scored with user_answer = -1 and
\* is_correct = FALSE, never an error: the result is complete, and the empty
\* answer map scores 0.
C5_OmittedIsIncorrect ==
  (op = "score_quiz" /\ Bank # <<>>) =>
    /\ ret.kind = "return"
    /\ DOMAIN ret.value = {"score", "total", "percentage", "passed",
                           "topic_scores", "question_results"}
    /\ Len(ret.value.question_results) = Len(Bank)
    /\ \A i \in 1..Len(Bank) :
         Bank[i].id \notin DOMAIN args.answers =>
           /\ ret.value.question_results[i].question_id = Bank[i].id
           /\ ret.value.question_results[i].user_answer = -1
           /\ ret.value.question_results[i].is_correct = FALSE
    /\ (DOMAIN args.answers = {} => ret.value.score = 0)

C5_Witness ==
  /\ Scored /\ Len(Bank) >= 2
  /\ DOMAIN args.answers = {}
  /\ ret.value.score = 0

\* C6: get_questions returns the empty sequence, without raising, for a
\* course_id with no bank, and the course's questions in their defined order
\* for a known course_id.
C6_GetQuestionsTotal ==
  op = "get_questions" =>
    /\ ret.kind = "return"
    /\ (args.course_id \notin DOMAIN quizzes => ret.value = <<>>)
    /\ (args.course_id \in DOMAIN quizzes =>
          /\ Len(ret.value) = Len(quizzes[args.course_id])
          /\ \A i \in 1..Len(ret.value) :
               ret.value[i] = quizzes[args.course_id][i])

C6_Witness ==
  /\ op = "get_questions"
  /\ args.course_id \notin DOMAIN quizzes
  /\ ret = Return(<<>>)

(***************************************************************************)
(* Claims about the pass mark and the not-found signal (under SpecApi).    *)
(***************************************************************************)

\* C17: in a result of score_quiz on a non-empty bank every topic_scores
\* entry has total >= 1, 0 <= correct <= total and percentage equal to
\* 100 * correct / total, between 0 and 100; and 0 <= score <= total.
C17_TopicScoreRanges ==
  (Scored /\ Bank # <<>>) =>
    /\ \A i \in 1..Len(ret.value.topic_scores) :
         LET scores == ret.value.topic_scores[i]
         IN  /\ scores.total >= 1
             /\ 0 <= scores.correct
             /\ scores.correct <= scores.total
             /\ scores.percentage.d > 0
             /\ scores.percentage.n * scores.total
                  = 100 * scores.correct * scores.percentage.d
             /\ 0 <= scores.percentage.n
             /\ scores.percentage.n <= 100 * scores.percentage.d
    /\ 0 <= ret.value.score
    /\ ret.value.score <= ret.value.total

C17_Witness ==
  /\ Scored /\ Bank # <<>>
  /\ \E i \in 1..Len(ret.value.topic_scores) :
       /\ ret.value.topic_scores[i].total = 3
       /\ ret.value.topic_scores[i].correct = 2
       /\ ret.value.topic_scores[i].percentage = [n |-> 200, d |-> 3]

\* the positions at which the bank shows a topic for the first time
FirstSeen ==
  {i \in 1..Len(Bank) : \A j \in 1..(i - 1) : Bank[j].topic # Bank[i].topic}

\* C18: question_results has one entry per question, in bank order, and the
\* topics of topic_scores are the topics of the bank's questions, each once,
\* in the order of their first appearance in the bank; the answer map is
\* read by key only, so the order of its keys plays no part.
C18_BankOrder ==
  (Scored /\ Bank # <<>>) =>
    /\ Len(ret.value.question_results) = Len(Bank)
    /\ \A i \in 1..Len(Bank) :
         ret.value.question_results[i].question_id = Bank[i].id
    /\ Len(ret.value.topic_scores) = Cardinality(FirstSeen)
    /\ \A i \in FirstSeen :
         ret.value.topic_scores[Cardinality({j \in FirstSeen : j <= i})].topic
           = Bank[i].topic

\* a topic that comes back after another one was seen
C18_Witness ==
  /\ Scored /\ Len(Bank) = 3
  /\ Bank[1].topic = "development"
  /\ Bank[2].topic = "architecture"
  /\ Bank[3].topic = "development"
  /\ Len(ret.value.topic_scores) = 2
  /\ ret.value.topic_scores[1].topic = "development"
  /\ DOMAIN args.answers # {}

StoredResults == {results_storage[i].value : i \in 1..Len(results_storage)}

\* C3: in every scoring result of score_quiz and of submit_quiz, passed is
\* true exactly when percentage >= 70, that is when 100 * score >= 70 * total.
C3_PassedIffSeventy ==
  (op \in {"score_quiz", "submit_quiz"} /\ ret.kind = "return"
     /\ ret.value.total > 0) =>
    /\ "passed" \in DOMAIN ret.value
    /\ ret.value.passed = (100 * ret.value.score >= 70 * ret.value.total)
    /\ ret.value.passed = ~Lt(ret.value.percentage, Whole(70))

\* exactly 70%: a stored submission and a service result, both 7 of 10
C3_Witness ==
  /\ op = "score_quiz" /\ ret.kind = "return"
  /\ ret.value.score = 7 /\ ret.value.total = 10 /\ ret.value.passed
  /\ \E r \in StoredResults :
       r.score = 7 /\ r.total = 10 /\ r.percentage = Whole(70) /\ r.passed

Recommended == op = "generate_recommendations" /\ ret.kind = "return"

\* a topic's percentage: the stored number, else 100 * correct / total
ClaimedPercentage(scores) ==
  IF "percentage" \in DOMAIN scores /\ IsNumber(scores.percentage)
    THEN scores.percentage
    ELSE IF scores.total > 0 THEN Num(100 * scores.correct, scores.total)
    ELSE Whole(0)

RecsFor(topic) == {j \in 1..Len(ret.value) : ret.value[j].topic = topic}

\* C7: generate_recommendations returns exactly one recommendation for each
\* topic whose percentage is strictly below threshold, none for a topic at or
\* above it, and no other; the number is not capped.
C7_OnePerWeakTopic ==
  op = "generate_recommendations" =>
    /\ ret.kind = "return"
    /\ \A i \in 1..Len(args.topic_scores) :
         Cardinality(RecsFor(args.topic_scores[i].topic)) =
           IF Lt(ClaimedPercentage(args.topic_scores[i]), args.threshold)
             THEN 1 ELSE 0
    /\ \A j \in 1..Len(ret.value) :
         \E i \in 1..Len(args.topic_scores) :
           args.topic_scores[i].topic = ret.value[j].topic

\* On entries that store a numeric percentage the threshold filter is exact:
\* the divergence of C7 is confined to entries without one.
StoredPercentageFilterExact ==
  op = "generate_recommendations" =>
    \A i \in 1..Len(args.topic_scores) :
      LET scores == args.topic_scores[i]
      IN  ("percentage" \in DOMAIN scores /\ IsNumber(scores.percentage)) =>
            Cardinality(RecsFor(scores.topic)) =
              IF Lt(scores.percentage, args.threshold) THEN 1 ELSE 0

\* C13: for topic_scores entries that carry correct and total, with or
\* without a stored percentage, the score of each recommendation equals
\* 100 * correct / total of its topic.
C13_ScoreIsRatio ==
  Recommended =>
    \A j \in 1..Len(ret.value) :
      \A i \in 1..Len(args.topic_scores) :
        LET scores == args.topic_scores[i]
        IN  (/\ scores.topic = ret.value[j].topic
             /\ {"correct", "total"} \subseteq DOMAIN scores
             /\ scores.total > 0) =>
              ret.value[j].score = Num(100 * scores.correct, scores.total)

\* the topic names of the model as str.replace("_", " ").title() writes them
TitleOf ==
  [fundamentals |-> "Fundamentals", api_design |-> "Api Design",
   development |-> "Development", deployment |-> "Deployment",
   architecture |-> "Architecture", dam |-> "Dam"]

\* the same in lower case
SpacedOf ==
  [fundamentals |-> "fundamentals", api_design |-> "api design",
   development |-> "development", deployment |-> "deployment",
   architecture |-> "architecture", dam |-> "dam"]

InTable(course_id, topic) ==
  /\ course_id \in DOMAIN course_resources
  /\ topic \in DOMAIN course_resources[course_id].topics

\* C14: generate_recommendations returns normally whatever the course and
\* the topics; a topic below threshold that the resource table lacks (an
\* unknown topic, or any topic of an unknown course) still gets its
\* recommendation, with module "Review <Topic Title> section" (underscores
\* to spaces, title-cased), artifact "summary" and the generic tip; a topic
\* of the table gets the table's module, artifact and tip.
C14_DefaultResource ==
  op = "generate_recommendations" =>
    /\ ret.kind = "return"
    /\ \A i \in 1..Len(args.topic_scores) :
         LET scores == args.topic_scores[i]
         IN  (/\ "percentage" \in DOMAIN scores
              /\ IsNumber(scores.percentage)
              /\ Lt(scores.percentage, args.threshold)) =>
               RecsFor(scores.topic) # {}
    /\ \A j \in 1..Len(ret.value) :
         LET rec == ret.value[j]
         IN  IF InTable(args.course_id, rec.topic)
               THEN LET resource ==
                          course_resources[args.course_id].topics[rec.topic]
                    IN  /\ rec.module = resource.module
                        /\ rec.artifact = resource.artifact
                        /\ rec.tip = resource.tip
               ELSE /\ rec.module
                         = "Review " \o TitleOf[rec.topic] \o " section"
                    /\ rec.artifact = "summary"
                    /\ rec.tip
                         = "Focus on " \o SpacedOf[rec.topic] \o " concepts"

\* a known course with a topic outside its table next to one inside it
C14_Witness ==
  /\ Recommended
  /\ args.course_id = "xm-cloud-101"
  /\ \E j, k \in 1..Len(ret.value) :
       /\ ret.value[j].topic = "api_design"
       /\ ret.value[j].module = "Review Api Design section"
       /\ ret.value[j].artifact = "summary"
       /\ ret.value[k].topic = "development"
       /\ ret.value[k].module = "Module 4: Component Development"

\* C8: every recommendation has priority "high" exactly when score < 40,
\* "medium" exactly when 40 <= score < 60 and "low" exactly when
\* 60 <= score < threshold, for any threshold.
C8_PriorityTiers ==
  op = "generate_recommendations" =>
    \A j \in 1..Len(ret.value) :
      LET r == ret.value[j]
      IN  /\ r.priority \in {"high", "medium", "low"}
          /\ (r.priority = "high") = Lt(r.score, Whole(40))
          /\ (r.priority = "medium") =
               (~Lt(r.score, Whole(40)) /\ Lt(r.score, Whole(60)))
          /\ (r.priority = "low") =
               (~Lt(r.score, Whole(60)) /\ Lt(r.score, args.threshold))

\* scores of exactly 40 and exactly 60, and a "low" above 70
C8_Witness ==
  /\ Recommended
  /\ \E j \in 1..Len(ret.value) :
       ret.value[j].score = Whole(40) /\ ret.value[j].priority = "medium"
  /\ \E j \in 1..Len(ret.value) :
       ret.value[j].score = Whole(60) /\ ret.value[j].priority = "low"
  /\ \E j \in 1..Len(ret.value) :
       ret.value[j].score = Whole(85) /\ ret.value[j].priority = "low"

Rank(priority) ==
  CASE priority = "high" -> 0
    [] priority = "medium" -> 1
    [] priority = "low" -> 2
    [] OTHER -> 3

InputPosition(topic) ==
  CHOOSE i \in 1..Len(args.topic_scores) : args.topic_scores[i].topic = topic

\* C9: the returned list is ordered by priority rank (high, medium, low),
\* within one priority by score ascending, and recommendations equal in both
\* keep the order of their topics in the input.
C9_SortedStable ==
  op = "generate_recommendations" =>
    \A i \in 1..Len(ret.value) : \A j \in 1..Len(ret.value) :
      i < j =>
        LET a == ret.value[i]
            b == ret.value[j]
        IN  /\ Rank(a.priority) <= Rank(b.priority)
            /\ (a.priority = b.priority => ~Lt(b.score, a.score))
            /\ (a.priority = b.priority /\ a.score = b.score =>
                  InputPosition(a.topic) < InputPosition(b.topic))

\* a tie in both keys, and a pair the sort had to exchange
C9_Witness ==
  /\ Recommended
  /\ \E i \in 1..Len(ret.value) : \E j \in 1..Len(ret.value) :
       /\ i < j
       /\ ret.value[i].priority = ret.value[j].priority
       /\ ret.value[i].score = ret.value[j].score
  /\ \E i \in 1..Len(ret.value) : \E j \in 1..Len(ret.value) :
       /\ i < j
       /\ InputPosition(ret.value[i].topic) > InputPosition(ret.value[j].topic)

\* C21: the returned list is non-decreasing in score over the whole list,
\* and recommendations of equal score keep the order of their topics in the
\* input: the order is that of a stable sort by score alone.
C21_SortedByScoreAlone ==
  op = "generate_recommendations" =>
    \A i \in 1..Len(ret.value) : \A j \in 1..Len(ret.value) :
      i < j =>
        LET a == ret.value[i]
            b == ret.value[j]
        IN  /\ ~Lt(b.score, a.score)
            /\ (a.score = b.score =>
                  InputPosition(a.topic) < InputPosition(b.topic))

\* three priorities in one list, given in an order the sort had to change
C21_Witness ==
  /\ Recommended
  /\ Len(ret.value) >= 3
  /\ {ret.value[j].priority : j \in 1..Len(ret.value)}
       = {"high", "medium", "low"}
  /\ \E i, j \in 1..Len(ret.value) :
       i < j /\ InputPosition(ret.value[j].topic)
                  < InputPosition(ret.value[i].topic)

C10_Input ==
  /\ op = "generate_recommendations"
  /\ args.threshold = Whole(70)
  /\ Len(args.topic_scores) = 4
  /\ \A i \in 1..4 : "percentage" \in DOMAIN args.topic_scores[i]
  /\ [i \in 1..4 |-> args.topic_scores[i].percentage] =
       <<Whole(85), Whole(30), Whole(55), Whole(65)>>

\* C10: topics at 85, 30, 55 and 65 (in that order) with threshold 70 give
\* exactly 3 recommendations, in the order 30 (high), 55 (medium), 65 (low).
C10_Example ==
  C10_Input =>
    /\ ret.kind = "return"
    /\ Len(ret.value) = 3
    /\ [j \in 1..3 |-> <<ret.value[j].topic, ret.value[j].score,
                         ret.value[j].priority>>] =
         <<<<args.topic_scores[2].topic, Whole(30), "high">>,
           <<args.topic_scores[3].topic, Whole(55), "medium">>,
           <<args.topic_scores[4].topic, Whole(65), "low">>>>

C10_Witness == C10_Input /\ ret.kind = "return" /\ Len(ret.value) = 3

(***************************************************************************)
(* Claims about scoring followed by recommending (checked under            *)
(* SpecScenario).                                                          *)
(***************************************************************************)
\* the questions of the bank on the topic that the answer map gets right
RightOn(topic) ==
  {i \in 1..Len(Bank) :
     /\ Bank[i].topic = topic
     /\ Bank[i].id \in DOMAIN args.answers
     /\ args.answers[Bank[i].id] = Bank[i].correct}

ScenarioCase ==
  /\ op = "recommend_scored"
  /\ Bank \in ScenarioBanks
  /\ Cardinality(RightOn("architecture")) = 2
  /\ Cardinality(RightOn("development")) = 1
  /\ args.threshold = Whole(70)

TopicEntry(topic_scores, topic) ==
  topic_scores[CHOOSE i \in 1..Len(topic_scores) :
                 topic_scores[i].topic = topic]

\* C11: on a bank of five questions, two on "architecture" and three on
\* "development", with both architecture questions and exactly one
\* development question answered correctly, the result is score 3 of 5,
\* 60 percent, not passed, architecture at 100 and development at 100/3
\* percent; recommending on its topic_scores at threshold 70 gives exactly
\* one recommendation, for "development", with priority "high".
C11_EndToEnd ==
  ScenarioCase =>
    /\ args.scored.score = 3
    /\ args.scored.total = 5
    /\ args.scored.percentage = Whole(60)
    /\ args.scored.passed = FALSE
    /\ {args.scored.topic_scores[i].topic :
          i \in 1..Len(args.scored.topic_scores)}
         = {"architecture", "development"}
    /\ Len(args.scored.topic_scores) = 2
    /\ TopicEntry(args.scored.topic_scores, "architecture").percentage
         = Whole(100)
    /\ TopicEntry(args.scored.topic_scores, "development").percentage
         = [n |-> 100, d |-> 3]
    /\ ret.kind = "return"
    /\ Len(ret.value) = 1
    /\ ret.value[1].topic = "development"
    /\ ret.value[1].priority = "high"

C11_Witness ==
  /\ ScenarioCase
  /\ Len(ret.value) = 1
  /\ ret.value[1].topic = "development"
  /\ args.scored.score = 3

(***************************************************************************)
(* Claims about the submit_quiz response (checked under SpecApi).          *)
(***************************************************************************)
Submitted == op = "submit_quiz" /\ ret.kind = "return"

\* C19: the inline scoring of submit_quiz agrees with score_quiz on the same
\* course_id and answers: the same score, total, percentage and passed, and
\* the same topics in the same order with the same correct, total and
\* percentage.
C19_InlineAgreesWithService ==
  Submitted =>
    LET scored == score_quiz(quizzes, args.course_id, args.answers)
    IN  /\ "error" \notin DOMAIN scored
        /\ ret.value.score = scored.score
        /\ ret.value.total = scored.total
        /\ ret.value.percentage = scored.percentage
        /\ ret.value.passed = scored.passed
        /\ Len(ret.value.topic_scores) = Len(scored.topic_scores)
        /\ \A i \in 1..Len(scored.topic_scores) :
             /\ ret.value.topic_scores[i].topic = scored.topic_scores[i].topic
             /\ ret.value.topic_scores[i].correct
                  = scored.topic_scores[i].correct
             /\ ret.value.topic_scores[i].total = scored.topic_scores[i].total
             /\ ret.value.topic_scores[i].percentage
                  = scored.topic_scores[i].percentage

\* two topics, one of them answered wrongly, and a key that is no question
C19_Witness ==
  /\ Submitted
  /\ Len(ret.value.topic_scores) = 2
  /\ ret.value.score = 1
  /\ ret.value.topic_scores[1].topic = "development"
  /\ ExtraKey \in DOMAIN args.answers

\* C12: in a submit_quiz response a topic has a recommendation exactly when
\* its percentage in the response's topic_scores is below 70, each
\* recommendation's score is that percentage, and a response in which every
\* topic is at 100 percent has no recommendations.
C12_RecommendationsOfTopicScores ==
  Submitted =>
    LET topic_scores == ret.value.topic_scores
        recommendations == ret.value.recommendations
    IN  /\ \A i \in 1..Len(topic_scores) :
             (\E j \in 1..Len(recommendations) :
                recommendations[j].topic = topic_scores[i].topic)
               <=> Lt(topic_scores[i].percentage, Whole(70))
        /\ \A j \in 1..Len(recommendations) :
             \E i \in 1..Len(topic_scores) :
               /\ topic_scores[i].topic = recommendations[j].topic
               /\ topic_scores[i].percentage = recommendations[j].score
        /\ ((\A i \in 1..Len(topic_scores) :
               topic_scores[i].percentage = Whole(100))
              => recommendations = <<>>)

(***************************************************************************)
(* Claims about repeated calls (checked under SpecRepeat).                 *)
(***************************************************************************)
SameCallAgain ==
  /\ op = "score_quiz"
  /\ earlier.kept
  /\ args.course_id = earlier.course_id
  /\ args.answers = earlier.answers

ServiceCalls ==
  {"score_quiz", "validate_answers", "get_topics", "generate_recommendations"}

\* the outcome of a QuizService call, computed on the given bank
OutcomeOn(table, call, a, r) ==
  /\ r.kind = "return"
  /\ CASE call = "score_quiz" ->
            r.value = score_quiz(table, a.course_id, a.answers)
       [] call = "validate_answers" ->
            r.value \in validate_answers(table, a.course_id, a.answers)
       [] call = "get_topics" ->
            r.value \in get_topics(table, a.course_id)
       [] OTHER -> TRUE

WithPercentage(topic_scores) ==
  [i \in 1..Len(topic_scores) |->
     topic_scores[i] @@
       [percentage |-> Num(100 * topic_scores[i].correct,
                           topic_scores[i].total)]]

EngineOnPageInput ==
  generate_recommendations(course_resources, args.course_id,
                           WithPercentage(args.results.topic_scores),
                           Whole(70))

\* C20: on the same topic_scores the results page and the engine at
\* threshold 70 return the same topics, in the same order, with the same
\* priority for each topic.
C20_PageAgreesWithEngine ==
  op = "results_page" =>
    /\ ret.kind = "return"
    /\ Len(ret.value) = Len(EngineOnPageInput)
    /\ \A j \in 1..Len(ret.value) :
         /\ ret.value[j].topic = EngineOnPageInput[j].topic
         /\ ret.value[j].priority = EngineOnPageInput[j].priority

\* The page and the engine do return the same topics in the same order: the
\* divergence of C20 is confined to the priority.
PageAgreesOnTopicsAndOrder ==
  op = "results_page" =>
    /\ Len(ret.value) = Len(EngineOnPageInput)
    /\ \A j \in 1..Len(ret.value) :
         ret.value[j].topic = EngineOnPageInput[j].topic

(***************************************************************************)
(* Claims about the notes router (checked under SpecNotes).                *)
(***************************************************************************)
NotePair == <<args.user_id, args.course_id>>

\* C22: get_notes(u, c) returns the content of the most recent create_notes
\* or update_notes for (u, c) that no delete_notes for (u, c) followed, and
\* empty content with word_count 0 when there is none; create_notes and
\* update_notes both answer with the content given and leave it stored for
\* the pair; delete_notes answers status "deleted" whether or not a note
\* exists.
C22_NotesLastWrite ==
  /\ op = "get_notes" =>
       /\ ret.kind = "return"
       /\ IF NotePair \in DOMAIN written.notes
            THEN ret.value.content = written.notes[NotePair]
            ELSE ret.value.content = "" /\ ret.value.word_count = 0
  /\ op \in {"create_notes", "update_notes"} =>
       /\ ret.kind = "return"
       /\ ret.value.content = args.note.content
       /\ get_notes(notes_storage, args.user_id, args.course_id,
                    "later").value.content = args.note.content
  /\ op = "delete_notes" =>
       ret = Return([status |-> "deleted", user_id |-> args.user_id,
                     course_id |-> args.course_id])

\* For ids without ":" the notes follow the last write: the divergence of
\* C22 is confined to pairs whose storage key is also the key of another
\* pair.
NotesLastWriteWithoutColon ==
  (op = "get_notes" /\ args.user_id = "a" /\ args.course_id = "c") =>
    IF NotePair \in DOMAIN written.notes
      THEN /\ ret.value.content = written.notes[NotePair]
           /\ ret.value.word_count
                = CASE ret.value.content = "" -> 0
                    [] ret.value.content = "one" -> 1
                    [] OTHER -> 2
      ELSE ret.value.content = "" /\ ret.value.word_count = 0

\* the (course_id, content) pairs of a list of notes
NotesOf(notes) ==
  {[course_id |-> notes[i].course_id, content |-> notes[i].content] :
     i \in 1..Len(notes)}

\* the pairs with the given user_id for which something is saved
SavedFor(saved, user_id) == {p \in DOMAIN saved : p[1] = user_id}

\* C23: stored notes and quiz results are isolated per (user_id,
\* course_id) pair for any id strings, ids containing ":" included: a
\* save, a delete or a submit for one pair changes the answer of get_notes
\* and get_results for no other pair, get_all_user_notes(u) returns exactly
\* the notes saved with user_id = u, each under the course_id it was saved
\* with, and get_all_results(u) returns exactly the results submitted with
\* user_id = u.
C23_IsolatedPerPair ==
  [][/\ op' \in {"create_notes", "update_notes", "delete_notes"} =>
          \A u \in IdUsers, c \in NoteCourses :
            <<u, c>> # <<args'.user_id, args'.course_id>> =>
              get_notes(notes_storage', u, c, "later").value.content
                = get_notes(notes_storage, u, c, "later").value.content
     /\ op' = "submit_quiz" =>
          \A u \in IdUsers, c \in ResultCourses :
            <<u, c>> # <<args'.user_id, args'.course_id>> =>
              get_results(results_storage', u, c)
                = get_results(results_storage, u, c)
     /\ op' = "get_all_user_notes" =>
          /\ Len(ret'.value.notes)
               = Cardinality(SavedFor(written.notes, args'.user_id))
          /\ NotesOf(ret'.value.notes)
               = {[course_id |-> p[2], content |-> written.notes[p]] :
                    p \in SavedFor(written.notes, args'.user_id)}
     /\ op' = "get_all_results" =>
          /\ Len(ret'.value.results)
               = Cardinality(SavedFor(written.results, args'.user_id))
          /\ Range(ret'.value.results)
               = {written.results[p] :
                    p \in SavedFor(written.results, args'.user_id)}
    ]_vars

(***************************************************************************)
(* Claims about the stored results (checked under SpecResults).            *)
(***************************************************************************)
\* what the claim expects of get_results for the pair of the request, given
\* the successful submissions so far
ExpectedResults(pair) ==
  IF pair \in DOMAIN written.results
    THEN Return(written.results[pair])
    ELSE Raise(404, "Results not found")

\* C24: get_results(u, c) answers 404 until a submit_quiz for (u, c) has
\* succeeded and from then on returns exactly the response of the most
\* recent successful submit_quiz for (u, c), under any interleaving with
\* other requests; a submit_quiz rejected with 404 leaves results_storage
\* unchanged.
C24_ResultsLastSubmit ==
  [][/\ op' = "get_results" =>
          ret' = ExpectedResults(<<args'.user_id, args'.course_id>>)
     /\ (op' = "submit_quiz" /\ ret'.kind = "raise") =>
          /\ ret'.status = 404
          /\ results_storage' = results_storage
    ]_vars

\* the same for the requests whose course_id holds no ":"
ResultsLastSubmitWithoutColon ==
  [][/\ (op' = "get_results"
           /\ args'.course_id \in {GenCourse, UnknownCourse}) =>
          ret' = ExpectedResults(<<args'.user_id, args'.course_id>>)
     /\ (op' = "submit_quiz" /\ ret'.kind = "raise") =>
          /\ ret'.status = 404
          /\ results_storage' = results_storage
    ]_vars

(***************************************************************************)
(* Claim about QuizService.validate_answers (checked under SpecShared).    *)
(***************************************************************************)
\* the question ids of the course of the call in progress
CourseQuestionIds ==
  LET questions == get_questions(quizzes, args.course_id)
  IN  {questions[i].id : i \in 1..Len(questions)}

\* C25: validate_answers returns valid = true exactly when every question
\* id of the course is a key of the answer map, and missing_questions is
\* exactly the set of absent ids; keys that are no question ids do not make
\* a submission invalid, and the reported answered count never exceeds
\* total_questions.
C25_ValidateAnswers ==
  op = "validate_answers" =>
    LET result == ret.value
        absent == CourseQuestionIds \ DOMAIN args.answers
    IN  /\ result.valid = (CourseQuestionIds \subseteq DOMAIN args.answers)
        /\ Range(result.missing_questions) = absent
        /\ Len(result.missing_questions) = Cardinality(absent)
        /\ result.answered <= result.total_questions

\* the same without the bound on the answered count
ValidateAnswersMissingOnly ==
  op = "validate_answers" =>
    LET result == ret.value
        absent == CourseQuestionIds \ DOMAIN args.answers
    IN  /\ result.valid = (CourseQuestionIds \subseteq DOMAIN args.answers)
        /\ Range(result.missing_questions) = absent
        /\ Len(result.missing_questions) = Cardinality(absent)

(***************************************************************************)
(* Claim about get_learning_path (checked under SpecPath).                 *)
(***************************************************************************)
\* the course ids of the suggestions returned
SuggestedIds == {ret.value[i].course_id : i \in 1..Len(ret.value)}

C27_ResponseShape ==
  op = "process_message" =>
    LET response == ret.value
        recommended == response.recommended_courses
    IN  /\ response.has_recommendations = response.conversation_complete
        /\ response.has_recommendations = (recommended # <<>>)
        /\ Len(recommended) <= 3
        /\ \A i \in 1..Len(recommended) :
             /\ recommended[i].score > 0
             /\ \E k \in 1..Len(courses) :
                  /\ courses[k].course_id = recommended[i].course_id
                  /\ courses[k].title = recommended[i].title
        /\ \A i, j \in 1..Len(recommended) :
             /\ i # j => recommended[i].course_id # recommended[j].course_id
             /\ i < j => recommended[i].score >= recommended[j].score

\* a response recommending two courses with different scores
C27_Witness ==
  /\ op = "process_message"
  /\ ret.value.has_recommendations
  /\ Len(ret.value.recommended_courses) = 2
  /\ ret.value.recommended_courses[1].score
       > ret.value.recommended_courses[2].score

\* a role is detected in the message or in a user message of the history
RoleDetected(message, history) ==
  \/ analyze_message(message).detected_role # NoRole
  \/ \E i \in 1..Len(history) :
       /\ history[i].role = "user"
       /\ analyze_message(history[i].content).detected_role # NoRole

\* C28: the discovery conversation always completes: whenever a role is
\* detected in the current message or in the history, and in any case once
\* the history holds max_turns user messages or more, process_message
\* returns recommendations with conversation_complete = true.
C28_ConversationCompletes ==
  (/\ op = "process_message"
   /\ \/ RoleDetected(args.message, args.history)
      \/ Len(UserMessages(args.history)) >= max_turns) =>
    /\ ret.value.has_recommendations
    /\ ret.value.conversation_complete

\* the same for the roles that are roles of a course, without the turns
CompletesForCourseRoles ==
  (/\ op = "process_message"
   /\ \E i \in 1..Len(courses) :
        InList(HistoryRole(args.history, 1,
                           analyze_message(args.message).detected_role),
               courses[i].roles)) =>
    /\ ret.value.has_recommendations
    /\ ret.value.conversation_complete

\* the conversation is still open after max_turns user messages
StillOpenAfterMaxTurns ==
  /\ op = "process_message"
  /\ Len(UserMessages(args.history)) >= max_turns
  /\ ~RoleDetected(args.message, args.history)
  /\ ~ret.value.conversation_complete

(***************************************************************************)
(* Claim about RAGChatbot (checked under SpecChat).                        *)
(***************************************************************************)
\* the chunks of the knowledge base of a course, none when it has none
ChunksOf(course_id) ==
  IF HasKey(knowledge_base, course_id)
    THEN Range(DictValue(knowledge_base, course_id))
    ELSE {}

\* a chunk as the knowledge base holds it, without its score
WithoutScore(chunk) == [f \in DOMAIN chunk \ {"score"} |-> chunk[f]]

\* some word of the query occurs in the content or the topic of the chunk
Matches(chunk, query) ==
  \E w \in Range(StrSplit(StrLower(query))) :
    \/ Contains(StrLower(chunk.content), w)
    \/ Contains(StrLower(chunk.topic), w)

\* C29: _search_knowledge_base returns only chunks of the chatbot's own
\* course_id, only chunks with a score above 0, at most top_k of them,
\* ordered by score, highest first; for a course without a knowledge base
\* or a query that matches no chunk it returns the empty list, and
\* get_response then returns the fallback message with empty sources.
C29_SearchKnowledgeBase ==
  /\ op = "_search_knowledge_base" =>
       LET found == ret.value
       IN  /\ \A i \in 1..Len(found) :
                /\ WithoutScore(found[i]) \in ChunksOf(args.course_id)
                /\ found[i].score > 0
           /\ Len(found) <= args.top_k
           /\ \A i, j \in 1..Len(found) :
                i < j => found[i].score >= found[j].score
           /\ (\A chunk \in ChunksOf(args.course_id) :
                 ~Matches(chunk, args.query)) => found = <<>>
  /\ op = "get_response" =>
       ((\A chunk \in ChunksOf(args.course_id) :
           ~Matches(chunk, args.message)) =>
          /\ ret.value.message
               = generate_fallback_response(args.course_id, args.message)
          /\ ret.value.sources = <<>>)

\* a search that leaves out a matching chunk and returns different scores
C29_Witness ==
  /\ op = "_search_knowledge_base"
  /\ Len(ret.value) = args.top_k
  /\ args.top_k > 1
  /\ Cardinality({chunk \in ChunksOf(args.course_id) :
                    Matches(chunk, args.query)}) > args.top_k
  /\ ret.value[1].score > ret.value[2].score

\* a question about a course with a knowledge base that matches no chunk
FallbackReached ==
  /\ op = "get_response"
  /\ ChunksOf(args.course_id) # {}
  /\ Len(StrSplit(args.message)) > 0
  /\ ret.value.sources = <<>>

(***************************************************************************)
(* Claim about get_quiz (checked under SpecGetQuiz).                       *)
(***************************************************************************)
\* two tables that differ in the correct indices of their questions at most
SameButCorrect(t1, t2) ==
  /\ DOMAIN t1 = DOMAIN t2
  /\ \A c \in DOMAIN t1 :
       /\ Len(t1[c]) = Len(t2[c])
       /\ \A i \in 1..Len(t1[c]) :
            [t1[c][i] EXCEPT !.correct = 0] = [t2[c][i] EXCEPT !.correct = 0]

\* C30: get_quiz does not reveal the correct answers: every question of
\* the response carries id, question, options and topic only, so two
\* question banks that differ only in their correct indices produce the
\* same get_quiz response.
C30_NoCorrectAnswers ==
  (op = "get_quiz" /\ ret.kind = "return") =>
    /\ \A i \in 1..Len(ret.value.questions) :
         DOMAIN ret.value.questions[i]
           = {"id", "question", "options", "topic"}
    /\ \A other \in QuizTables :
         SameButCorrect(quizzes, other) =>
           get_quiz(other, args.course_id) = ret

\* a response for a bank that has a twin with other correct indices
C30_Witness ==
  /\ op = "get_quiz"
  /\ ret.kind = "return"
  /\ Len(ret.value.questions) > 1
  /\ \E other \in QuizTables :
       /\ other # quizzes
       /\ SameButCorrect(quizzes, other)

====
